---- MODULE Spec2Model ----
(***************************************************************************)
(* Chunk alignment (utils/version_mapping.py: map_chunks) and change       *)
(* classification (change_detection/detector.py: ChangeDetector) of the    *)
(* 3GPP change detector, as run by the `detect` command of main.py.        *)
(*                                                                         *)
(* Strings are sequences of code points, so that str comparison, sorted()  *)
(* and difflib work on them as they do in Python.  None is the empty       *)
(* option <<>>, a present value x the option <<x>>.  Floats that the code  *)
(* computes as ratios are exact fractions <<numerator, denominator>>.      *)
(* difflib.SequenceMatcher is modelled without junk: isjunk is None at     *)
(* every call site and autojunk only acts on sequences of 200 or more      *)
(* elements.                                                               *)
(***************************************************************************)
EXTENDS Integers, Sequences, FiniteSets, TLC

VARIABLES
    old_chunks,       \* chunk list of the old revision (detect: _load)
    new_chunks,       \* chunk list of the new revision
    threshold,        \* mapping threshold handed to map_chunks
    mapping,          \* dict returned by the last map_chunks call
    prev_mapping,     \* dict returned by the call before it
    map_runs,         \* number of map_chunks calls so far
    det_made,         \* a ChangeDetector has been constructed
    det_threshold,    \* ChangeDetector.threshold
    det_version_map,  \* ChangeDetector.version_map
    changes,          \* list returned by the last detect_changes call
    prev_changes,     \* list returned by the call before it
    det_runs,         \* number of detect_changes calls on the detector
    run_pc,           \* which call was made on the loaded chunk lists
    map_error,        \* exception raised by map_chunks, or None
    det_error,        \* exception raised by detect_changes, or None
    version_map_file, \* data/processed/version_map.json, None when absent
    changes_file,     \* data/processed/changes.json, None when absent
    files_before,     \* the two files as they were before the run
    cl_pc,            \* cluster_events.py: the step the script has reached
    emb_file,         \* rows of data/embeddings/diff_embeddings.npy, None when absent
    embs,             \* rows of the array embs, None before step 3
    labels,           \* the array returned by fit_predict
    events,           \* the list events of the script
    events_file,      \* data/processed/change_events.json, None when absent
    cl_error,         \* exception that ended the script, or None
    db_pc,            \* the command that made the live VectorDB, or its end
    vdb,              \* the VectorDB object of the process, None without one
    chunk_index_file, \* faiss.index in the persist directory, None when absent
    chunk_meta_file,  \* faiss_meta.pkl
    event_index_file, \* events.index
    event_meta_file,  \* events_meta.pkl
    versions_file,    \* versions.pkl
    db_error,         \* exception that ended the last command, or None
    db_query,         \* the last query made on vdb, or None
    db_results,       \* the list that query returned
    built_from,       \* the events the last completed builddb run read
    versions_json,    \* data/processed/versions.json, None when absent
    self_versions,    \* self.versions of the VectorDB constructed last
    parse_pc,         \* position of parse_docx
    doc,              \* the paragraphs of the document parse_docx reads
    token_limits,     \* the arguments max_tokens and min_chunk_tokens
    doc_chunks,       \* the list chunks of parse_docx
    merged,           \* the list parse_docx returns
    default_prefix,   \* difflib.HtmlDiff._default_prefix of the process
    html_files,       \* the files write_html_diff wrote: (path, content) pairs
    html_calls        \* the write_html_diff calls made: arguments and content

detectVars == <<old_chunks, new_chunks, threshold, mapping, prev_mapping, map_runs,
                det_made, det_threshold, det_version_map, changes, prev_changes,
                det_runs>>

runVars == <<run_pc, map_error, det_error, version_map_file, changes_file,
             files_before>>

clusterVars == <<cl_pc, emb_file, embs, labels, events, events_file, cl_error>>

dbVars == <<db_pc, vdb, chunk_index_file, chunk_meta_file, event_index_file,
            event_meta_file, versions_file, db_error, db_query, db_results,
            built_from>>

versionVars == <<versions_json, self_versions>>

parseVars == <<parse_pc, doc, token_limits, doc_chunks, merged>>

htmlVars == <<default_prefix, html_files, html_calls>>

pipelineVars == <<clusterVars, dbVars, versionVars, parseVars, htmlVars>>

vars == <<detectVars, runVars, pipelineVars>>

----------------------------------------------------------------------------
(* Bounds *)

MaxOld == 3
MaxNew == 2
MaxMapOld == 1
MaxMapNew == 2
MaxRuns == 2

----------------------------------------------------------------------------
(* Strings, options, fractions *)

None == <<>>
Some(x) == <<x>>
Val(o) == o[1]

\* Python truthiness of an Optional[str]: None and "" are falsy
Truthy(o) == o # <<>> /\ o[1] # <<>>

StrA == <<97>>
StrAB == <<97, 98>>
StrB == <<98>>
Sec10 == <<49, 48>>
Sec2 == <<50>>
Underscore == <<95>>
Arrow == <<8594>>

RECURSIVE DecStr(_)
DecStr(n) == IF n < 10 THEN <<48 + n>> ELSE DecStr(n \div 10) \o <<48 + (n % 10)>>

\* comparison as numbers: the shorter digit string is the smaller one
StrLessNumeric(s, t) ==
    \/ Len(s) < Len(t)
    \/ Len(s) = Len(t) /\ \E p \in 1..Len(s) :
           s[p] < t[p] /\ \A q \in 1..(p - 1) : s[q] = t[q]

\* str.__lt__: lexicographic by code point, a proper prefix is smaller
RECURSIVE StrLess(_, _)
StrLess(s, t) ==
    IF t = <<>> THEN FALSE
    ELSE IF s = <<>> THEN TRUE
    ELSE IF s[1] # t[1] THEN s[1] < t[1]
    ELSE StrLess(Tail(s), Tail(t))

FracZero == <<0, 1>>
FracOne == <<1, 1>>
FracLess(x, y) == x[1] * y[2] < y[1] * x[2]
FracGeq(x, y) == ~FracLess(x, y)
FracEq(x, y) == x[1] * y[2] = y[1] * x[2]
FracMul(x, y) == <<x[1] * y[1], x[2] * y[2]>>
FracAdd(x, y) == <<x[1] * y[2] + y[1] * x[2], x[2] * y[2]>>

RECURSIVE Concat(_)
Concat(ss) == IF ss = <<>> THEN <<>> ELSE Head(ss) \o Concat(Tail(ss))

SeqsUpTo(S, n) == UNION {[1..k -> S] : k \in 0..n}

----------------------------------------------------------------------------
(* difflib.SequenceMatcher(None, a, b) *)

\* j2len: length of the common run that ends at a[i], b[j] (0-based) and
\* lies inside a[alo:], b[blo:]
RECURSIVE RunLen(_, _, _, _, _, _)
RunLen(a, b, alo, blo, i, j) ==
    IF i < alo \/ j < blo THEN 0
    ELSE IF a[i + 1] # b[j + 1] THEN 0
    ELSE 1 + RunLen(a, b, alo, blo, i - 1, j - 1)

\* one pass of the inner loop of find_longest_match, for a[i]: <<j, k>>,
\* the longest run that ends at a[i] and the first b[j] (0-based) it ends at
RowBest(a, b, alo, blo, bhi, i) ==
    LET row == {<<j, RunLen(a, b, alo, blo, i, j)>> : j \in blo..(bhi - 1)}
    IN  CHOOSE r \in row :
            \A q \in row : q[2] < r[2] \/ (q[2] = r[2] /\ r[1] <= q[1])

\* if k > bestsize: besti, bestj, bestsize = i-k+1, j-k+1, k
Longer(r, i, best) ==
    IF r[2] > best[3] THEN <<i - r[2] + 1, r[1] - r[2] + 1, r[2]>> ELSE best

\* the outer loop of find_longest_match; best = <<besti, bestj, bestsize>>
RECURSIVE ScanMatch(_, _, _, _, _, _, _, _)
ScanMatch(a, b, alo, ahi, blo, bhi, i, best) ==
    IF i >= ahi \/ blo >= bhi THEN best
    ELSE ScanMatch(a, b, alo, ahi, blo, bhi, i + 1,
                   Longer(RowBest(a, b, alo, blo, bhi, i), i, best))

find_longest_match(a, b, alo, ahi, blo, bhi) ==
    ScanMatch(a, b, alo, ahi, blo, bhi, alo, <<alo, blo, 0>>)

\* the queue loop of get_matching_blocks followed by matching_blocks.sort()
RECURSIVE BlocksIn(_, _, _, _, _, _)
BlocksIn(a, b, alo, ahi, blo, bhi) ==
    LET x == find_longest_match(a, b, alo, ahi, blo, bhi)
        i == x[1]
        j == x[2]
        k == x[3]
    IN  IF k = 0 THEN <<>>
        ELSE (IF alo < i /\ blo < j THEN BlocksIn(a, b, alo, i, blo, j) ELSE <<>>)
             \o <<x>>
             \o (IF i + k < ahi /\ j + k < bhi
                 THEN BlocksIn(a, b, i + k, ahi, j + k, bhi) ELSE <<>>)

\* collapse of adjacent blocks; cur = <<i1, j1, k1>>
RECURSIVE NonAdjacent(_, _)
NonAdjacent(blocks, cur) ==
    IF blocks = <<>> THEN (IF cur[3] # 0 THEN <<cur>> ELSE <<>>)
    ELSE LET nx == Head(blocks)
         IN  IF cur[1] + cur[3] = nx[1] /\ cur[2] + cur[3] = nx[2]
             THEN NonAdjacent(Tail(blocks), <<cur[1], cur[2], cur[3] + nx[3]>>)
             ELSE (IF cur[3] # 0 THEN <<cur>> ELSE <<>>)
                  \o NonAdjacent(Tail(blocks), nx)

get_matching_blocks(a, b) ==
    NonAdjacent(BlocksIn(a, b, 0, Len(a), 0, Len(b)), <<0, 0, 0>>)
        \o << <<Len(a), Len(b), 0>> >>

Op(tag, i1, i2, j1, j2) == [tag |-> tag, i1 |-> i1, i2 |-> i2, j1 |-> j1, j2 |-> j2]

\* the loop of get_opcodes from position (i, j) on
RECURSIVE OpcodesFrom(_, _, _)
OpcodesFrom(blocks, i, j) ==
    IF blocks = <<>> THEN <<>>
    ELSE LET ai == Head(blocks)[1]
             bj == Head(blocks)[2]
             size == Head(blocks)[3]
             gap == IF i < ai /\ j < bj THEN << Op("replace", i, ai, j, bj) >>
                    ELSE IF i < ai THEN << Op("delete", i, ai, j, bj) >>
                    ELSE IF j < bj THEN << Op("insert", i, ai, j, bj) >>
                    ELSE <<>>
             eq == IF size # 0
                   THEN << Op("equal", ai, ai + size, bj, bj + size) >>
                   ELSE <<>>
         IN  gap \o eq \o OpcodesFrom(Tail(blocks), ai + size, bj + size)

get_opcodes(a, b) == OpcodesFrom(get_matching_blocks(a, b), 0, 0)

RECURSIVE SumSizes(_)
SumSizes(blocks) == IF blocks = <<>> THEN 0 ELSE Head(blocks)[3] + SumSizes(Tail(blocks))

\* ratio(): 2.0 * matches / length, and 1.0 when both sequences are empty
ratio(a, b) ==
    LET matches == SumSizes(get_matching_blocks(a, b))
        length == Len(a) + Len(b)
    IN  IF length # 0 THEN <<2 * matches, length>> ELSE FracOne

compute_similarity(a, b) == ratio(a, b)

----------------------------------------------------------------------------
(* Chunks, as parse_docx leaves them *)

RawChunk(sec, title, content) == [section_id |-> sec, title |-> title, content |-> content]

Paragraph(sec, text) == RawChunk(sec, None, text)
Heading(sec, title) == RawChunk(sec, Some(title), title)

SectionIds == {Sec10, Sec2}

\* untitled paragraphs: the chunks of the detect pipeline
ParagraphKinds == {Paragraph(Sec10, StrA), Paragraph(Sec10, StrAB), Paragraph(Sec2, StrA)}

\* headings and paragraphs: the chunks map_chunks is checked on
MapKinds == {Paragraph(Sec10, StrA), Paragraph(Sec10, StrB), Paragraph(Sec2, StrA),
             Heading(Sec10, StrA), Heading(Sec10, StrAB), Heading(Sec2, StrA)}

\* number of chunks among the first n that lie in section sec
RECURSIVE CountSec(_, _, _)
CountSec(raw, n, sec) ==
    IF n = 0 THEN 0
    ELSE CountSec(raw, n - 1, sec) + (IF raw[n].section_id = sec THEN 1 ELSE 0)

\* the finalize loop of parse_docx: chunk_id = f"{sec}_{idx}", idx counted
\* per section
AssignIds(raw) ==
    [n \in 1..Len(raw) |->
        LET sec == raw[n].section_id
            idx == CountSec(raw, n - 1, sec)
        IN  [section_id |-> sec,
             chunk_id |-> sec \o Underscore \o DecStr(idx),
             title |-> raw[n].title,
             content |-> raw[n].content]]

\* keys of a defaultdict filled in list order (insertion order)
RECURSIVE FirstSeen(_, _)
FirstSeen(chunks, seen) ==
    IF chunks = <<>> THEN <<>>
    ELSE LET s == Head(chunks).section_id
         IN  IF s \in seen THEN FirstSeen(Tail(chunks), seen)
             ELSE <<s>> \o FirstSeen(Tail(chunks), seen \cup {s})

Keys(chunks) == FirstSeen(chunks, {})

\* by_sec.get(sec, [])
BySec(chunks, sec) == SelectSeq(chunks, LAMBDA c : c.section_id = sec)

Contents(chunks) == [n \in 1..Len(chunks) |-> chunks[n].content]

----------------------------------------------------------------------------
(* utils/version_mapping.py *)

title_weight == <<7, 10>>
content_weight == <<3, 10>>

Thresholds == {<<1, 10>>, <<3, 10>>, <<6, 10>>}
MapThresholds == {<<0, 10>>, <<3, 10>>, <<6, 10>>}

\* o.get("title") or ""
TitleOf(c) == IF Truthy(c.title) THEN Val(c.title) ELSE <<>>

\* the content similarity alone, whatever the weights
PairScoreContent(o, n, tw, cw) == ratio(o.content, n.content)

PairScore(o, n, tw, cw) ==
    LET o_title == TitleOf(o)
        n_title == TitleOf(n)
        title_score == IF o_title # <<>> /\ n_title # <<>>
                       THEN ratio(o_title, n_title) ELSE FracZero
        content_score == ratio(o.content, n.content)
    IN  FracAdd(FracMul(tw, title_score), FracMul(cw, content_score))

\* score >= best_score: a later chunk with the same score takes over
BetterOrEqual(score, best_score) == FracGeq(score, best_score)

\* score > best_score
Better(score, best_score) == FracLess(best_score, score)

\* the loop over news; best = <<best_score, best_chunk>>
RECURSIVE BestOver(_, _, _, _, _)
BestOver(o, news, tw, cw, best) ==
    IF news = <<>> THEN best
    ELSE LET n == Head(news)
             score == PairScore(o, n, tw, cw)
         IN  BestOver(o, Tail(news), tw, cw,
                      IF Better(score, best[1]) THEN <<score, Some(n.chunk_id)>>
                      ELSE best)

\* best_chunk if best_score >= threshold else None
MapTarget(best, thr) == IF FracGeq(best[1], thr) THEN best[2] ELSE None

Put(m, k, v) == [x \in (DOMAIN m) \cup {k} |-> IF x = k THEN v ELSE m[x]]

\* every new chunk, whatever its section
CandidatesAnySection(new, sec) == new

\* new_by_sec.get(sec, []): the new chunks an old chunk of sec is compared with
Candidates(new, sec) == BySec(new, sec)

RECURSIVE MapOlds(_, _, _, _, _, _)
MapOlds(olds, news, tw, cw, thr, m) ==
    IF olds = <<>> THEN m
    ELSE LET o == Head(olds)
             best == BestOver(o, news, tw, cw, <<FracZero, None>>)
         IN  MapOlds(Tail(olds), news, tw, cw, thr,
                     Put(m, o.chunk_id, MapTarget(best, thr)))

RECURSIVE MapSections(_, _, _, _, _, _, _)
MapSections(secs, old, new, tw, cw, thr, m) ==
    IF secs = <<>> THEN m
    ELSE MapSections(Tail(secs), old, new, tw, cw, thr,
                     MapOlds(BySec(old, Head(secs)), Candidates(new, Head(secs)),
                             tw, cw, thr, m))

map_chunks(old, new, tw, cw, thr) ==
    MapSections(Keys(old), old, new, tw, cw, thr, <<>>)

----------------------------------------------------------------------------
(* change_detection/detector.py *)

Change(sec, id, type, old_content, new_content, score, moved_to) ==
    [section_id |-> sec, chunk_id |-> id, change_type |-> type,
     old_content |-> old_content, new_content |-> new_content,
     similarity_score |-> score, moved_to |-> moved_to]

\* version_map.get(chunk_id)
Get(vm, id) == IF id \in DOMAIN vm THEN vm[id] ELSE None

\* chunk_id in version_map.values()
InValues(vm, id) == \E k \in DOMAIN vm : vm[k] = Some(id)

\* without the version_map lookup: every deleted chunk is REMOVED
DeleteChangeNoMove(sec, c, vm) ==
    Change(sec, c.chunk_id, "REMOVED", c.content, <<>>, FracZero, None)

DeleteChange(sec, c, vm) ==
    LET moved_to == Get(vm, c.chunk_id)
    IN  IF Truthy(moved_to)
        THEN Change(sec, c.chunk_id, "MOVED", c.content, <<>>, FracOne, moved_to)
        ELSE Change(sec, c.chunk_id, "REMOVED", c.content, <<>>, FracZero, None)

\* range(i1, i2 - 1): the last chunk of the run is left out
DeleteChangesShort(sec, olds, op, vm) ==
    [n \in 1..(op.i2 - op.i1 - 1) |-> DeleteChange(sec, olds[op.i1 + n], vm)]

DeleteChanges(sec, olds, op, vm) ==
    [n \in 1..(op.i2 - op.i1) |-> DeleteChange(sec, olds[op.i1 + n], vm)]

\* without the skip of mapped chunks
InsertKeptAll(ins, vm) == ins

\* the inserted chunks that get a record
InsertKept(ins, vm) == SelectSeq(ins, LAMBDA c : ~InValues(vm, c.chunk_id))

InsertChanges(sec, news, op, vm) ==
    LET kept == InsertKept(SubSeq(news, op.j1 + 1, op.j2), vm)
    IN  [n \in 1..Len(kept) |->
            Change(sec, kept[n].chunk_id, "ADDED", <<>>, kept[n].content, FracOne, None)]

ReplaceSpan(op) == IF op.i2 - op.i1 < op.j2 - op.j1 THEN op.i2 - op.i1 ELSE op.j2 - op.j1

ReplaceChange(sec, old_c, new_c) ==
    Change(sec, old_c.chunk_id \o Arrow \o new_c.chunk_id, "MODIFIED",
           old_c.content, new_c.content,
           compute_similarity(old_c.content, new_c.content), None)

\* the stricter mode: the unpaired old chunks of the run are reported REMOVED
ReplaceChangesStrict(sec, olds, news, op) ==
    [n \in 1..ReplaceSpan(op) |->
        ReplaceChange(sec, olds[op.i1 + n], news[op.j1 + n])]
    \o [n \in 1..(op.i2 - op.i1 - ReplaceSpan(op)) |->
           Change(sec, olds[op.i1 + ReplaceSpan(op) + n].chunk_id, "REMOVED",
                  olds[op.i1 + ReplaceSpan(op) + n].content, <<>>, FracZero, None)]

\* every old chunk of the run paired with the first new chunk of the run
ReplaceChangesFirst(sec, olds, news, op) ==
    [n \in 1..(op.i2 - op.i1) |->
        ReplaceChange(sec, olds[op.i1 + n], news[op.j1 + 1])]

ReplaceChanges(sec, olds, news, op) ==
    [n \in 1..ReplaceSpan(op) |->
        ReplaceChange(sec, olds[op.i1 + n], news[op.j1 + n])]

\* without the `continue` of equal runs: they fall through to the pairing
OpChangesNoSkip(sec, olds, news, op, vm) ==
    IF op.tag = "delete" THEN DeleteChanges(sec, olds, op, vm)
    ELSE IF op.tag = "insert" THEN InsertChanges(sec, news, op, vm)
    ELSE ReplaceChanges(sec, olds, news, op)

OpChanges(sec, olds, news, op, vm) ==
    IF op.tag = "equal" THEN <<>>
    ELSE IF op.tag = "delete" THEN DeleteChanges(sec, olds, op, vm)
    ELSE IF op.tag = "insert" THEN InsertChanges(sec, news, op, vm)
    ELSE ReplaceChanges(sec, olds, news, op)

SectionOpcodes(old, new, sec) ==
    get_opcodes(Contents(BySec(old, sec)), Contents(BySec(new, sec)))

SectionChanges(old, new, sec, vm) ==
    LET olds == BySec(old, sec)
        news == BySec(new, sec)
        ops == SectionOpcodes(old, new, sec)
    IN  Concat([n \in 1..Len(ops) |-> OpChanges(sec, olds, news, ops[n], vm)])

\* set(old_by_sec) | set(new_by_sec)
AllSecs(old, new) ==
    {old[n].section_id : n \in 1..Len(old)} \cup {new[n].section_id : n \in 1..Len(new)}

\* the orders in which iterating a set can yield its elements
IterOrders(S) ==
    {f \in [1..Cardinality(S) -> S] : \A i, j \in 1..Cardinality(S) : i # j => f[i] # f[j]}

RECURSIVE InsertSorted(_, _)
InsertSorted(x, sorted) ==
    IF sorted = <<>> THEN <<x>>
    ELSE IF StrLess(x, Head(sorted)) THEN <<x>> \o sorted
    ELSE <<Head(sorted)>> \o InsertSorted(x, Tail(sorted))

RECURSIVE SortStrs(_)
SortStrs(seq) == IF seq = <<>> THEN <<>> ELSE InsertSorted(Head(seq), SortStrs(Tail(seq)))

\* for sec in all_secs: the set's own iteration order
UnsortedSecs(iter) == iter

\* sorted(all_secs), all_secs iterated in the order iter
SortedSecs(iter) == SortStrs(iter)

detect_changes(old, new, vm, iter) ==
    LET secs == SortedSecs(iter)
    IN  Concat([n \in 1..Len(secs) |-> SectionChanges(old, new, secs[n], vm)])

DefaultThreshold == <<85, 100>>
SimilarityThresholds == {<<1, 2>>}

----------------------------------------------------------------------------
(* The detect command: load, map_chunks, ChangeDetector, detect_changes *)

\* the clustering script has not been started
ClusterIdle ==
    /\ cl_pc = "idle"
    /\ emb_file = None
    /\ embs = None
    /\ labels = <<>>
    /\ events = <<>>
    /\ events_file = None
    /\ cl_error = None

\* an empty persist directory and no VectorDB
DbIdle ==
    /\ db_pc = "down"
    /\ vdb = None
    /\ chunk_index_file = None
    /\ chunk_meta_file = None
    /\ event_index_file = None
    /\ event_meta_file = None
    /\ versions_file = None
    /\ db_error = None
    /\ db_query = None
    /\ db_results = <<>>
    /\ built_from = None
    /\ versions_json = None
    /\ self_versions = <<>>

\* a document: the texts of its first page, the paragraphs from the resume
\* point on, and the paragraphs of the header of its first section
Document(first_page, body, header) ==
    [first_page |-> first_page, body |-> body, header |-> header]

\* parse_docx not called
ParseIdle ==
    /\ parse_pc = "idle"
    /\ doc = Document(<<>>, <<>>, <<>>)
    /\ token_limits = <<500, 20>>
    /\ doc_chunks = <<>>
    /\ merged = <<>>

\* a process that has made no HtmlDiff, and no diff file
HtmlIdle ==
    /\ default_prefix = 0
    /\ html_files = {}
    /\ html_calls = <<>>

PipelineIdle == ClusterIdle /\ DbIdle /\ ParseIdle /\ HtmlIdle

\* no call made, no output file present
RunIdle ==
    /\ run_pc = "loaded"
    /\ map_error = None
    /\ det_error = None
    /\ version_map_file = None
    /\ changes_file = None
    /\ files_before = <<None, None>>
    /\ PipelineIdle

Loaded(olds, news, thrs) ==
    /\ RunIdle
    /\ old_chunks \in olds
    /\ new_chunks \in news
    /\ threshold \in thrs
    /\ mapping = <<>>
    /\ prev_mapping = <<>>
    /\ map_runs = 0
    /\ det_made = FALSE
    /\ det_threshold = DefaultThreshold
    /\ det_version_map = <<>>
    /\ changes = <<>>
    /\ prev_changes = <<>>
    /\ det_runs = 0

Init ==
    Loaded({AssignIds(r) : r \in SeqsUpTo(ParagraphKinds, MaxOld)},
           {AssignIds(r) : r \in SeqsUpTo(ParagraphKinds, MaxNew)},
           Thresholds)

InitMap ==
    Loaded({AssignIds(r) : r \in SeqsUpTo(MapKinds, MaxMapOld)},
           {AssignIds(r) : r \in SeqsUpTo(MapKinds, MaxMapNew)},
           MapThresholds)

\* version_map = map_chunks(old_chunks, new_chunks, 0.7, 0.3, threshold)
MapChunks ==
    /\ ~det_made
    /\ map_runs < MaxRuns
    /\ mapping' = map_chunks(old_chunks, new_chunks, title_weight, content_weight, threshold)
    /\ prev_mapping' = mapping
    /\ map_runs' = map_runs + 1
    /\ UNCHANGED <<old_chunks, new_chunks, threshold, det_made, det_threshold,
                   det_version_map, changes, prev_changes, det_runs>>
    /\ UNCHANGED <<runVars, pipelineVars>>

\* ChangeDetector(threshold=..., version_map=version_map), once the repeated
\* map_chunks calls are done
MakeDetector ==
    /\ ~det_made
    /\ map_runs = MaxRuns
    /\ det_made' = TRUE
    /\ det_threshold' \in SimilarityThresholds
    /\ det_version_map' = mapping
    /\ UNCHANGED <<old_chunks, new_chunks, threshold, mapping, prev_mapping,
                   map_runs, changes, prev_changes, det_runs>>
    /\ UNCHANGED <<runVars, pipelineVars>>

\* ChangeDetector(): threshold 0.85, version_map None or {}
MakeDefaultDetector ==
    /\ ~det_made
    /\ map_runs = 0
    /\ det_made' = TRUE
    /\ det_threshold' = DefaultThreshold
    /\ det_version_map' = <<>>
    /\ UNCHANGED <<old_chunks, new_chunks, threshold, mapping, prev_mapping,
                   map_runs, changes, prev_changes, det_runs>>
    /\ UNCHANGED <<runVars, pipelineVars>>

\* detector.detect_changes(old_chunks, new_chunks)
DetectChanges ==
    /\ det_made
    /\ det_runs < MaxRuns
    /\ \E iter \in IterOrders(AllSecs(old_chunks, new_chunks)) :
          changes' = detect_changes(old_chunks, new_chunks, det_version_map, iter)
    /\ prev_changes' = changes
    /\ det_runs' = det_runs + 1
    /\ UNCHANGED <<old_chunks, new_chunks, threshold, mapping, prev_mapping,
                   map_runs, det_made, det_threshold, det_version_map>>
    /\ UNCHANGED <<runVars, pipelineVars>>

Next == MapChunks \/ MakeDetector \/ MakeDefaultDetector \/ DetectChanges

Spec == Init /\ [][Next]_vars

NextMap == MapChunks

SpecMap == InitMap /\ [][NextMap]_vars

----------------------------------------------------------------------------
(* Vocabulary of the properties *)

Mapped == map_runs >= 1
Detected == det_runs >= 1

\* the detector was built from the map that map_chunks returned
Pipeline == det_made /\ Mapped /\ det_version_map = mapping

Secs == {old_chunks[n].section_id : n \in 1..Len(old_chunks)}
            \cup {new_chunks[n].section_id : n \in 1..Len(new_chunks)}
Olds(sec) == SelectSeq(old_chunks, LAMBDA c : c.section_id = sec)
News(sec) == SelectSeq(new_chunks, LAMBDA c : c.section_id = sec)

\* the edit script between two chunk sequences, by content
Script(olds, news) == get_opcodes([n \in 1..Len(olds) |-> olds[n].content],
                                  [n \in 1..Len(news) |-> news[n].content])
Ops(sec) == Script(Olds(sec), News(sec))
Tagged(ops, tag) == {k \in 1..Len(ops) : ops[k].tag = tag}

\* the run of ops that holds old index i (new index j), 0-based
RunOfOld(ops, i) == CHOOSE k \in 1..Len(ops) : ops[k].i1 <= i /\ i < ops[k].i2
RunOfNew(ops, j) == CHOOSE k \in 1..Len(ops) : ops[k].j1 <= j /\ j < ops[k].j2

OldLen(op) == op.i2 - op.i1
NewLen(op) == op.j2 - op.j1
Pairs(op) == IF OldLen(op) <= NewLen(op) THEN OldLen(op) ELSE NewLen(op)

ArrowAt(id) == CHOOSE p \in 1..Len(id) : id[p] = Arrow[1]
OldHalf(id) == SubSeq(id, 1, ArrowAt(id) - 1)
NewHalf(id) == SubSeq(id, ArrowAt(id) + 1, Len(id))

Records == 1..Len(changes)
OfType(n, types) == changes[n].change_type \in types

\* record n is about the old chunk id (the new chunk id)
OldSubject(n, id) ==
    \/ OfType(n, {"REMOVED", "MOVED"}) /\ changes[n].chunk_id = id
    \/ OfType(n, {"MODIFIED"}) /\ OldHalf(changes[n].chunk_id) = id
NewSubject(n, id) ==
    \/ OfType(n, {"ADDED"}) /\ changes[n].chunk_id = id
    \/ OfType(n, {"MODIFIED"}) /\ NewHalf(changes[n].chunk_id) = id
MovedTarget(n, id) == OfType(n, {"MOVED"}) /\ changes[n].moved_to = <<id>>

OldRecords(id) == {n \in Records : OldSubject(n, id)}
NewRecords(id) == {n \in Records : NewSubject(n, id)}

IsMapValue(id) == \E k \in DOMAIN det_version_map : det_version_map[k] = <<id>>

\* new chunk j (0-based) of sec lies in an insert run and is a map value
Skipped(sec, j) ==
    /\ Ops(sec)[RunOfNew(Ops(sec), j)].tag = "insert"
    /\ IsMapValue(News(sec)[j + 1].chunk_id)

----------------------------------------------------------------------------
(* C1 *)

\* C1, as stated: with version_map = map_chunks(old_chunks, new_chunks), every
\* old chunk appears in exactly one Change (as chunk_id or old half of a
\* composite id) and every new chunk not skipped by the insert rule appears
\* in exactly one Change (as chunk_id, new half, or moved_to target).
C1_Coverage ==
    (Detected /\ Pipeline) =>
        \A sec \in Secs :
            /\ \A i \in 0..(Len(Olds(sec)) - 1) :
                   Cardinality(OldRecords(Olds(sec)[i + 1].chunk_id)) = 1
            /\ \A j \in 0..(Len(News(sec)) - 1) :
                   \/ Skipped(sec, j)
                   \/ Cardinality({n \in Records :
                          \/ NewSubject(n, News(sec)[j + 1].chunk_id)
                          \/ MovedTarget(n, News(sec)[j + 1].chunk_id)}) = 1

\* C1, amended: an old chunk is the subject of exactly one Change when it
\* lies in a delete run or among the first min(m, n) chunks of a replace
\* run, and of none otherwise; a new chunk is the subject of exactly one
\* Change when it lies in an insert run and is no version_map value, or
\* among the first min(m, n) chunks of a replace run, and of none otherwise.
C1_SubjectCoverage ==
    Detected =>
        \A sec \in Secs :
            LET olds == Olds(sec)
                news == News(sec)
                ops == Script(olds, news)
            IN  /\ \A i \in 0..(Len(olds) - 1) :
                       LET op == ops[RunOfOld(ops, i)]
                           due == \/ op.tag = "delete"
                                  \/ op.tag = "replace" /\ i - op.i1 < Pairs(op)
                       IN  Cardinality(OldRecords(olds[i + 1].chunk_id))
                               = IF due THEN 1 ELSE 0
                /\ \A j \in 0..(Len(news) - 1) :
                       LET op == ops[RunOfNew(ops, j)]
                           due == \/ op.tag = "insert" /\ ~IsMapValue(news[j + 1].chunk_id)
                                  \/ op.tag = "replace" /\ j - op.j1 < Pairs(op)
                       IN  Cardinality(NewRecords(news[j + 1].chunk_id))
                               = IF due THEN 1 ELSE 0

\* a detection that returns records for an input with an equal run and a
\* replace run with unpaired excess
C1_Witness ==
    /\ Detected
    /\ changes # <<>>
    /\ \E sec \in Secs : Tagged(Ops(sec), "equal") # {}
    /\ \E sec \in Secs : \E k \in Tagged(Ops(sec), "replace") :
           OldLen(Ops(sec)[k]) # NewLen(Ops(sec)[k])

----------------------------------------------------------------------------
(* C2 *)

\* C2: when old_chunks and new_chunks are the same list, detect_changes
\* returns the empty list, whatever the version map.
C2_Idempotent == (Detected /\ old_chunks = new_chunks) => changes = <<>>

\* identical lists with a section that holds the same content twice and a
\* version map with a non-null entry
C2_Witness ==
    /\ Detected
    /\ old_chunks = new_chunks
    /\ \E sec \in Secs : \E m, n \in 1..Len(Olds(sec)) :
           m # n /\ Olds(sec)[m].content = Olds(sec)[n].content
    /\ \E k \in DOMAIN det_version_map : det_version_map[k] # <<>>

----------------------------------------------------------------------------
(* C3, C4, C5: map_chunks *)

SameSection(o) == SelectSeq(new_chunks, LAMBDA n : n.section_id = o.section_id)

ScoreOf(o, n) == PairScore(o, n, title_weight, content_weight)

\* the scores of o against the new chunks news, and their maximum
Scores(o, news) == {ScoreOf(o, news[n]) : n \in 1..Len(news)}
MaxOf(scores) == CHOOSE x \in scores : \A y \in scores : ~FracLess(x, y)
MaxScore(o) == MaxOf(Scores(o, SameSection(o)))

\* first chunk of news, in list order, whose score equals top
FirstAt(o, news, top) ==
    news[CHOOSE m \in 1..Len(news) :
             /\ FracEq(ScoreOf(o, news[m]), top)
             /\ \A l \in 1..(m - 1) : ~FracEq(ScoreOf(o, news[l]), top)]

OldSet == {old_chunks[n] : n \in 1..Len(old_chunks)}
NewSet == {new_chunks[n] : n \in 1..Len(new_chunks)}

\* C3: an old chunk with a new chunk in its section is mapped to a new
\* chunk_id exactly when its maximum score is >= threshold (also when both
\* are 0), and to null exactly when the maximum is below threshold.
C3_ThresholdBoundary ==
    Mapped =>
        \A o \in OldSet :
            SameSection(o) # <<>> =>
                /\ FracGeq(MaxScore(o), threshold) <=> mapping[o.chunk_id] # <<>>
                /\ FracLess(MaxScore(o), threshold) <=> mapping[o.chunk_id] = <<>>

\* C4: the map has exactly one entry per old chunk_id; a value is null or
\* the chunk_id of a new chunk of the old chunk's section; an old chunk
\* whose section has no new chunk maps to null.
C4_SameSection ==
    Mapped =>
        /\ DOMAIN mapping = {o.chunk_id : o \in OldSet}
        /\ Cardinality(DOMAIN mapping) = Len(old_chunks)
        /\ \A o \in OldSet :
               /\ \/ mapping[o.chunk_id] = <<>>
                  \/ \E n \in NewSet : /\ mapping[o.chunk_id] = <<n.chunk_id>>
                                       /\ n.section_id = o.section_id
               /\ SameSection(o) = <<>> => mapping[o.chunk_id] = <<>>

\* an old chunk mapped inside its section while the new revision also holds
\* a chunk of another section with the same content
C4_Witness ==
    /\ Mapped
    /\ \E o \in OldSet : \E n, x \in NewSet :
           /\ mapping[o.chunk_id] = <<n.chunk_id>>
           /\ x.section_id # o.section_id
           /\ x.content = o.content

\* C5: a mapped old chunk is mapped to the first new chunk of its section,
\* in new_chunks order, that reaches the maximum score; a repeated call
\* returns the same map.
C5_TieBreak ==
    /\ Mapped =>
           \A o \in OldSet :
               mapping[o.chunk_id] # <<>> =>
                   LET news == SameSection(o)
                       top == MaxOf(Scores(o, news))
                   IN  mapping[o.chunk_id] = <<FirstAt(o, news, top).chunk_id>>
    /\ map_runs >= 2 => mapping = prev_mapping

\* two new chunks tie at the maximum and the old chunk is mapped to the
\* earlier one, after a repeated call
C5_Witness ==
    /\ map_runs >= 2
    /\ \E o \in OldSet : \E m, n \in 1..Len(SameSection(o)) :
           /\ m < n
           /\ FracEq(ScoreOf(o, SameSection(o)[m]), MaxScore(o))
           /\ FracEq(ScoreOf(o, SameSection(o)[n]), MaxScore(o))
           /\ mapping[o.chunk_id] = <<SameSection(o)[m].chunk_id>>

----------------------------------------------------------------------------
(* C6: output ordering *)

\* lexicographic order of strings by code point
LexLess(x, y) ==
    \E p \in 1..Len(y) :
        /\ \A q \in 1..(p - 1) : q <= Len(x) /\ x[q] = y[q]
        /\ \/ p = Len(x) + 1
           \/ p <= Len(x) /\ x[p] < y[p]
LexLeq(x, y) == x = y \/ LexLess(x, y)

\* 0-based index in chunks of the chunk with the given id
IndexOf(chunks, id) == CHOOSE i \in 0..(Len(chunks) - 1) : chunks[i + 1].chunk_id = id

\* index of record r's chunk in its section: the new index for ADDED, the
\* old index for the other types
SubjectIndex(olds, news, r) ==
    IF r.change_type = "ADDED" THEN IndexOf(news, r.chunk_id)
    ELSE IF r.change_type = "MODIFIED" THEN IndexOf(olds, OldHalf(r.chunk_id))
    ELSE IndexOf(olds, r.chunk_id)

\* position in ops of the run that record r comes from
RunIndex(ops, olds, news, r) ==
    IF r.change_type = "ADDED" THEN RunOfNew(ops, SubjectIndex(olds, news, r))
    ELSE RunOfOld(ops, SubjectIndex(olds, news, r))

\* record r comes before record t in the edit script of their section
ScriptOrder(r, t) ==
    LET olds == Olds(r.section_id)
        news == News(r.section_id)
        ops == Script(olds, news)
        rr == RunIndex(ops, olds, news, r)
        rt == RunIndex(ops, olds, news, t)
    IN  \/ rr < rt
        \/ rr = rt /\ SubjectIndex(olds, news, r) < SubjectIndex(olds, news, t)

\* C6: section ids of consecutive records are non-decreasing in
\* lexicographic order, and consecutive records of one section follow the
\* runs of the edit script, by ascending index inside a run.
C6_OutputOrdering ==
    Detected =>
        \A n \in 1..(Len(changes) - 1) :
            /\ LexLeq(changes[n].section_id, changes[n + 1].section_id)
            /\ changes[n].section_id = changes[n + 1].section_id
                   => ScriptOrder(changes[n], changes[n + 1])

\* the inputs name section "2" before section "10", both sections have
\* records, and one run yields two records
C6_Witness ==
    /\ Detected
    /\ old_chunks # <<>> /\ old_chunks[1].section_id = Sec2
    /\ new_chunks # <<>> /\ new_chunks[1].section_id = Sec2
    /\ \E m, n \in Records : changes[m].section_id = Sec10 /\ changes[n].section_id = Sec2
    /\ \E n \in 1..(Len(changes) - 1) :
           /\ changes[n].section_id = changes[n + 1].section_id
           /\ RunIndex(Ops(changes[n].section_id), Olds(changes[n].section_id),
                       News(changes[n].section_id), changes[n])
                  = RunIndex(Ops(changes[n].section_id), Olds(changes[n].section_id),
                             News(changes[n].section_id), changes[n + 1])

----------------------------------------------------------------------------
(* C7, C8, C9: classification per run *)

\* C7: every old chunk of a delete run yields exactly one record: MOVED with
\* score 1.0, empty new_content and moved_to = version_map[chunk_id] when the
\* map holds a non-null target, else REMOVED with score 0.0 and empty
\* new_content; a chunk of a section absent from the new revision that has
\* no mapping yields one REMOVED record.
C7_DeleteClassification ==
    Detected =>
        \A sec \in Secs :
            LET olds == Olds(sec)
                news == News(sec)
                ops == Script(olds, news)
            IN  \A k \in Tagged(ops, "delete") : \A i \in ops[k].i1..(ops[k].i2 - 1) :
                    LET c == olds[i + 1]
                        target == IF c.chunk_id \in DOMAIN det_version_map
                                  THEN det_version_map[c.chunk_id] ELSE <<>>
                        recs == OldRecords(c.chunk_id)
                    IN  /\ Cardinality(recs) = 1
                        /\ \A n \in recs :
                               /\ changes[n].section_id = sec
                               /\ changes[n].old_content = c.content
                               /\ changes[n].new_content = <<>>
                               /\ IF target # <<>>
                                  THEN /\ changes[n].change_type = "MOVED"
                                       /\ changes[n].similarity_score = <<1, 1>>
                                       /\ changes[n].moved_to = target
                                  ELSE /\ changes[n].change_type = "REMOVED"
                                       /\ changes[n].similarity_score = <<0, 1>>
                                       /\ changes[n].moved_to = <<>>
                        /\ (news = <<>> /\ target = <<>>) =>
                               \A n \in recs : changes[n].change_type = "REMOVED"

\* one detection returns a MOVED record and a REMOVED record for a chunk
\* whose section is absent from the new revision
C7_Witness ==
    /\ Detected
    /\ \E n \in Records : changes[n].change_type = "MOVED"
    /\ \E n \in Records :
           changes[n].change_type = "REMOVED" /\ News(changes[n].section_id) = <<>>

\* C8: a new chunk of an insert run yields no record when its chunk_id is a
\* value of version_map, and otherwise exactly one ADDED record with empty
\* old_content and score 1.0; a chunk of a section that only the new
\* revision has is ADDED.
C8_InsertClassification ==
    Detected =>
        \A sec \in Secs :
            LET olds == Olds(sec)
                news == News(sec)
                ops == Script(olds, news)
            IN  \A k \in Tagged(ops, "insert") : \A j \in ops[k].j1..(ops[k].j2 - 1) :
                    LET c == news[j + 1]
                        recs == NewRecords(c.chunk_id)
                    IN  /\ IsMapValue(c.chunk_id) => recs = {}
                        /\ ~IsMapValue(c.chunk_id) =>
                               /\ Cardinality(recs) = 1
                               /\ \A n \in recs :
                                      /\ changes[n].change_type = "ADDED"
                                      /\ changes[n].section_id = sec
                                      /\ changes[n].old_content = <<>>
                                      /\ changes[n].new_content = c.content
                                      /\ changes[n].similarity_score = <<1, 1>>
                                      /\ changes[n].moved_to = <<>>
                        /\ (olds = <<>> /\ Pipeline) => Cardinality(recs) = 1

\* a detection skips an inserted chunk that is a map value: the section has
\* no ADDED record although it has an insert run
C8_Witness ==
    /\ Detected
    /\ \E sec \in Secs : \E j \in 0..(Len(News(sec)) - 1) :
           /\ Skipped(sec, j)
           /\ ~\E n \in Records : changes[n].section_id = sec /\ OfType(n, {"ADDED"})

\* C9: a replace run of m old and n new chunks yields exactly min(m, n)
\* MODIFIED records, the k-th pairing the k-th old with the k-th new chunk
\* under the id old_id -> new_id; the unpaired excess yields no record; the
\* section holds no other MODIFIED record; one old and one new chunk of one
\* section with different content give exactly one record, MODIFIED.
C9_ReplacePairing ==
    Detected =>
        /\ \A sec \in Secs :
               LET olds == Olds(sec)
                   news == News(sec)
                   ops == Script(olds, news)
                   mods == {n \in Records : /\ changes[n].change_type = "MODIFIED"
                                            /\ changes[n].section_id = sec}
                   due == {kx \in (Tagged(ops, "replace") \X (0..Len(olds))) :
                              kx[2] < Pairs(ops[kx[1]])}
               IN  /\ Cardinality(mods) = Cardinality(due)
                   /\ \A k \in Tagged(ops, "replace") :
                          /\ \A x \in 0..(Pairs(ops[k]) - 1) :
                                 LET o == olds[ops[k].i1 + x + 1]
                                     w == news[ops[k].j1 + x + 1]
                                     recs == {n \in Records :
                                                 changes[n].chunk_id
                                                     = o.chunk_id \o Arrow \o w.chunk_id}
                                 IN  /\ Cardinality(recs) = 1
                                     /\ \A n \in recs :
                                            /\ changes[n].change_type = "MODIFIED"
                                            /\ changes[n].section_id = sec
                                            /\ changes[n].old_content = o.content
                                            /\ changes[n].new_content = w.content
                          /\ \A x \in Pairs(ops[k])..(OldLen(ops[k]) - 1) :
                                 OldRecords(olds[ops[k].i1 + x + 1].chunk_id) = {}
                          /\ \A x \in Pairs(ops[k])..(NewLen(ops[k]) - 1) :
                                 NewRecords(news[ops[k].j1 + x + 1].chunk_id) = {}
        /\ ( /\ Len(old_chunks) = 1 /\ Len(new_chunks) = 1
             /\ old_chunks[1].section_id = new_chunks[1].section_id
             /\ old_chunks[1].content # new_chunks[1].content )
               => (Len(changes) = 1 /\ changes[1].change_type = "MODIFIED")

\* three old chunks replaced by one new chunk: one MODIFIED record, paired
\* with the first old chunk, whose score lies below the detector's threshold
C9_Witness ==
    /\ Detected
    /\ Len(old_chunks) = 3
    /\ Len(new_chunks) = 1
    /\ Ops(Sec10) = << Op("replace", 0, 3, 0, 1) >>
    /\ Len(changes) = 1
    /\ changes[1].change_type = "MODIFIED"
    /\ changes[1].chunk_id = old_chunks[1].chunk_id \o Arrow \o new_chunks[1].chunk_id
    /\ FracLess(changes[1].similarity_score, det_threshold)

----------------------------------------------------------------------------
(* C10: determinism *)

\* C10: a second map_chunks call on the same inputs returns the same map,
\* and a second detect_changes call on the same detector returns the same
\* ordered list.
C10_Determinism ==
    /\ map_runs >= 2 => mapping = prev_mapping
    /\ det_runs >= 2 => changes = prev_changes

\* both calls were repeated, on inputs with two sections that both have
\* records
C10_Witness ==
    /\ map_runs >= 2
    /\ det_runs >= 2
    /\ \E m, n \in Records : changes[m].section_id # changes[n].section_id

----------------------------------------------------------------------------
(* The detect command of main.py, with its output files, on chunk lists    *)
(* that may lack keys; Change.to_dict                                      *)

MaxRunOld == 2
MaxRunNew == 1

Sec5 == <<53>>
SecPreamble == <<48, 95, 112, 114, 101, 97, 109, 98, 108, 101>>
Preamble == <<80, 114, 101, 97, 109, 98, 108, 101>>
TextA == <<84, 104, 101, 32, 85, 69, 32, 115, 104, 97, 108, 108, 32, 97, 117, 116, 104, 101, 110, 116, 105, 99, 97, 116, 101>>
TextB == <<84, 104, 101, 32, 85, 69, 32, 115, 104, 97, 108, 108, 32, 109, 117, 116, 117, 97, 108, 108, 121, 32, 97, 117, 116, 104, 101, 110, 116, 105, 99, 97, 116, 101>>

\* the chunks of the run: two untitled paragraphs of section "5" and the
\* heading chunk that parse_docx puts first, whose content is empty
RunKinds == {Paragraph(Sec5, StrA), Paragraph(Sec5, StrAB),
             RawChunk(SecPreamble, Some(Preamble), <<>>)}

\* old section "5" = [A], new section "5" = [B], both untitled
ScenarioInput == <<AssignIds(<<Paragraph(Sec5, TextA)>>),
                   AssignIds(<<Paragraph(Sec5, TextB)>>)>>

RunThresholds == {<<1, 10>>, <<6, 10>>}

\* a dict without the key k
Without(c, k) == [f \in (DOMAIN c) \ {k} |-> c[f]]

\* k in c
Has(c, k) == k \in DOMAIN c

\* the lists that differ from chunks in one chunk, which lacks the
\* section_id or the content key
Damaged(chunks) ==
    {[chunks EXCEPT ![n] = Without(chunks[n], k)] :
        n \in 1..Len(chunks), k \in {"section_id", "content"}}

WellFormed(chunks) ==
    \A n \in 1..Len(chunks) : Has(chunks[n], "section_id") /\ Has(chunks[n], "content")

RunLists(max) == {AssignIds(r) : r \in SeqsUpTo(RunKinds, max)}

\* pairs of chunk lists with at most one chunk lacking a key, and the
\* scenario
RunInputs ==
    LET good == RunLists(MaxRunOld) \X RunLists(MaxRunNew)
    IN  good \cup {ScenarioInput}
             \cup UNION {{<<o, p[2]>> : o \in Damaged(p[1])} : p \in good}
             \cup UNION {{<<p[1], n>> : n \in Damaged(p[2])} : p \in good}

\* the key k as a str
KeyName(k) ==
    CASE k = "section_id" -> <<115, 101, 99, 116, 105, 111, 110, 95, 105, 100>>
      [] k = "content" -> <<99, 111, 110, 116, 101, 110, 116>>

\* c[k] on a dict without the key k: KeyError(k), whose message is repr(k)
KeyError(k) ==
    [type |-> "KeyError", key |-> k, message |-> <<39>> \o KeyName(k) \o <<39>>]

Lacks(chunks, k) == \E n \in 1..Len(chunks) : ~Has(chunks[n], k)

\* the exception map_chunks raises on (old, new), None when it returns: the
\* grouping loops read section_id of every chunk; the scoring loops read
\* content of every old chunk and of the new chunks of a section that has
\* an old chunk
map_chunks_raises(old, new) ==
    IF Lacks(old, "section_id") \/ Lacks(new, "section_id")
    THEN Some(KeyError("section_id"))
    ELSE IF \/ Lacks(old, "content")
            \/ \E n \in 1..Len(new) :
                   /\ ~Has(new[n], "content")
                   /\ \E m \in 1..Len(old) : old[m].section_id = new[n].section_id
    THEN Some(KeyError("content"))
    ELSE None

\* the exception detect_changes raises on (old, new), None when it returns:
\* the grouping loops read section_id of every chunk, the loop over all_secs
\* reads content of every chunk
detect_changes_raises(old, new) ==
    IF Lacks(old, "section_id") \/ Lacks(new, "section_id")
    THEN Some(KeyError("section_id"))
    ELSE IF Lacks(old, "content") \/ Lacks(new, "content")
    THEN Some(KeyError("content"))
    ELSE None

\* ChangeType.value
TypeValue(type) ==
    CASE type = "ADDED" -> "added"
      [] type = "REMOVED" -> "removed"
      [] type = "MODIFIED" -> "modified"
      [] type = "MOVED" -> "moved"

\* asdict with change_type as its value: moved_to is kept when it is None
to_dict_keep(c) == [c EXCEPT !.change_type = TypeValue(c.change_type)]

\* Change.to_dict: asdict, change_type as its value, moved_to popped when None
to_dict(c) ==
    LET d == [c EXCEPT !.change_type = TypeValue(c.change_type)]
    IN  IF c.moved_to = None THEN Without(d, "moved_to") ELSE d

\* [c.to_dict() for c in changes]
ToDicts(cs) == [n \in 1..Len(cs) |-> to_dict(cs[n])]

\* the outputs of an earlier detect run on two empty chunk lists
PriorFiles == <<Some(<<>>), Some(<<>>)>>

InitRun ==
    /\ \E p \in RunInputs : old_chunks = p[1] /\ new_chunks = p[2]
    /\ threshold \in RunThresholds
    /\ mapping = <<>>
    /\ prev_mapping = <<>>
    /\ map_runs = 0
    /\ det_made = FALSE
    /\ det_threshold = DefaultThreshold
    /\ det_version_map = <<>>
    /\ changes = <<>>
    /\ prev_changes = <<>>
    /\ det_runs = 0
    /\ run_pc = "loaded"
    /\ map_error = None
    /\ det_error = None
    /\ files_before \in {<<None, None>>, PriorFiles}
    /\ version_map_file = files_before[1]
    /\ changes_file = files_before[2]
    /\ PipelineIdle

\* map_chunks(old_chunks, new_chunks, 0.7, 0.3, threshold), called directly
CallMapChunks ==
    /\ run_pc = "loaded"
    /\ run_pc' = "map_chunks"
    /\ map_error' = map_chunks_raises(old_chunks, new_chunks)
    /\ IF map_error' = None
       THEN /\ mapping' = map_chunks(old_chunks, new_chunks, title_weight,
                                     content_weight, threshold)
            /\ map_runs' = map_runs + 1
       ELSE UNCHANGED <<mapping, map_runs>>
    /\ UNCHANGED <<old_chunks, new_chunks, threshold, prev_mapping, det_made,
                   det_threshold, det_version_map, changes, prev_changes, det_runs,
                   det_error, version_map_file, changes_file, files_before>>
    /\ UNCHANGED pipelineVars

\* ChangeDetector().detect_changes(old_chunks, new_chunks), called directly
CallDetectChanges ==
    /\ run_pc = "loaded"
    /\ run_pc' = "detect_changes"
    /\ det_made' = TRUE
    /\ det_error' = detect_changes_raises(old_chunks, new_chunks)
    /\ IF det_error' = None
       THEN /\ \E iter \in IterOrders(AllSecs(old_chunks, new_chunks)) :
                   changes' = detect_changes(old_chunks, new_chunks, <<>>, iter)
            /\ det_runs' = det_runs + 1
       ELSE UNCHANGED <<changes, det_runs>>
    /\ UNCHANGED <<old_chunks, new_chunks, threshold, mapping, prev_mapping,
                   map_runs, det_threshold, det_version_map, prev_changes,
                   map_error, version_map_file, changes_file, files_before>>
    /\ UNCHANGED pipelineVars

\* the detect command: map_chunks, save_version_map, ChangeDetector,
\* detect_changes, json.dump of the to_dict records; an exception ends the
\* command where it is raised
Detect ==
    /\ run_pc = "loaded"
    /\ map_error' = map_chunks_raises(old_chunks, new_chunks)
    /\ IF map_error' # None
       THEN /\ run_pc' = "failed"
            /\ UNCHANGED <<mapping, map_runs, version_map_file, det_made,
                           det_threshold, det_version_map, det_error, changes,
                           det_runs, changes_file>>
       ELSE \E version_map \in {map_chunks(old_chunks, new_chunks, title_weight,
                                            content_weight, threshold)} :
            /\ mapping' = version_map
            /\ map_runs' = map_runs + 1
            /\ version_map_file' = Some(version_map)
            /\ det_made' = TRUE
            /\ det_threshold' \in SimilarityThresholds
            /\ det_version_map' = version_map
            /\ det_error' = detect_changes_raises(old_chunks, new_chunks)
            /\ IF det_error' # None
               THEN /\ run_pc' = "failed"
                    /\ UNCHANGED <<changes, det_runs, changes_file>>
               ELSE \E iter \in IterOrders(AllSecs(old_chunks, new_chunks)) :
                    \E cs \in {detect_changes(old_chunks, new_chunks,
                                              version_map, iter)} :
                        /\ changes' = cs
                        /\ det_runs' = det_runs + 1
                        /\ changes_file' = Some(ToDicts(cs))
                        /\ run_pc' = "done"
    /\ UNCHANGED <<old_chunks, new_chunks, threshold, prev_mapping, prev_changes,
                   files_before>>
    /\ UNCHANGED pipelineVars

NextRun == CallMapChunks \/ CallDetectChanges \/ Detect

SpecRun == InitRun /\ [][NextRun]_vars

----------------------------------------------------------------------------
(* C11, C12, C17, C20: the detect command *)

Malformed == ~WellFormed(old_chunks) \/ ~WellFormed(new_chunks)

\* the chunk that lacks a key
Offender ==
    LET all == old_chunks \o new_chunks
    IN  all[CHOOSE n \in 1..Len(all) :
                ~Has(all[n], "section_id") \/ ~Has(all[n], "content")]

\* t occurs in s
Contains(s, t) ==
    \E p \in 0..(Len(s) - Len(t)) : SubSeq(s, p + 1, p + Len(t)) = t

\* the exception of the direct call that was made
CallError == IF run_pc = "map_chunks" THEN map_error ELSE det_error

\* C11: a direct call of map_chunks or detect_changes on lists in which a
\* chunk lacks the section_id or the content key raises a MissingFieldError
\* whose message names the chunk_id of that chunk, and returns no list.
C11_MissingField ==
    (Malformed /\ run_pc \in {"map_chunks", "detect_changes"}) =>
        /\ CallError # None
        /\ Val(CallError).type = "MissingFieldError"
        /\ Contains(Val(CallError).message, Offender.chunk_id)
        /\ run_pc = "detect_changes" => det_runs = 0

Scenario == <<old_chunks, new_chunks>> = ScenarioInput /\ threshold = <<6, 10>>

\* the one record of the scenario: MODIFIED with score 50/59
ScenarioRecord ==
    /\ Len(changes) = 1
    /\ changes[1].change_type = "MODIFIED"
    /\ changes[1].chunk_id = old_chunks[1].chunk_id \o Arrow \o new_chunks[1].chunk_id
    /\ FracEq(changes[1].similarity_score, <<50, 59>>)

\* C12, as stated: in the scenario (A, B untitled in section "5", threshold
\* 0.6, weights 0.7 and 0.3) map_chunks maps A to B and detect_changes emits
\* exactly one record, MODIFIED, with similarity_score 50/59.
C12_ScenarioMapped ==
    (Scenario /\ run_pc = "done") =>
        /\ mapping[old_chunks[1].chunk_id] = Some(new_chunks[1].chunk_id)
        /\ ScenarioRecord

\* C12, amended: in the scenario map_chunks maps A to null (the score is
\* 0.3 * 50/59 = 15/59, below 0.6) and detect_changes emits exactly one
\* record, MODIFIED, with similarity_score 50/59.
C12_ScenarioUnmapped ==
    /\ (Scenario /\ run_pc \in {"done", "map_chunks"}) =>
           /\ DOMAIN mapping = {old_chunks[1].chunk_id}
           /\ mapping[old_chunks[1].chunk_id] = None
    /\ (Scenario /\ run_pc \in {"done", "detect_changes"}) => ScenarioRecord
    /\ (Scenario /\ run_pc = "done") =>
           /\ version_map_file = Some(mapping)
           /\ FracEq(ScoreOf(old_chunks[1], new_chunks[1]), <<15, 59>>)

\* the detect command has run on the scenario
C12_Witness == Scenario /\ run_pc = "done" /\ Len(changes) = 1

\* C17: a detect run that fails in the mapping step or in the detection
\* step leaves version_map.json and changes.json as they were before it.
C17_NoPartialOutput ==
    run_pc = "failed" =>
        /\ version_map_file = files_before[1]
        /\ changes_file = files_before[2]

\* the Change was made from an old chunk whose content is empty
FromEmptyOld(c) ==
    \E n \in 1..Len(old_chunks) :
        /\ old_chunks[n].content = <<>>
        /\ old_chunks[n].section_id = c.section_id
        /\ \/ c.chunk_id = old_chunks[n].chunk_id
           \/ c.change_type = "MODIFIED" /\ OldHalf(c.chunk_id) = old_chunks[n].chunk_id

\* the parts of the record shape that do not depend on old_content
ShapeOf(c) ==
    /\ FracGeq(c.similarity_score, FracZero)
    /\ FracGeq(FracOne, c.similarity_score)
    /\ c.change_type \in {"REMOVED", "MOVED"} => c.new_content = <<>>
    /\ c.moved_to # None <=> c.change_type = "MOVED"

\* the to_dict rendering d of the record c
DictShapeOf(d, c) ==
    /\ d.change_type \in {"added", "removed", "modified", "moved"}
    /\ "moved_to" \in DOMAIN d <=> c.change_type = "MOVED"

Returned == ~Malformed /\ run_pc \in {"done", "detect_changes"}

\* C20, as stated: every returned Change has similarity_score in [0,1],
\* old_content empty exactly for ADDED, new_content empty for REMOVED and
\* MOVED, moved_to set exactly for MOVED; to_dict gives change_type as one of
\* the four lower-case strings and has the moved_to key exactly for MOVED.
C20_RecordShape ==
    Returned =>
        /\ \A n \in 1..Len(changes) :
               /\ ShapeOf(changes[n])
               /\ changes[n].old_content = <<>> <=> changes[n].change_type = "ADDED"
        /\ run_pc = "done" =>
               /\ Len(Val(changes_file)) = Len(changes)
               /\ \A n \in 1..Len(changes) :
                      DictShapeOf(Val(changes_file)[n], changes[n])

\* C20, amended: as stated, but old_content is empty for every ADDED
\* record, and for a record of another type exactly when the old chunk it
\* was made from has empty content.
C20_RecordShapeAmended ==
    Returned =>
        /\ \A n \in 1..Len(changes) :
               /\ ShapeOf(changes[n])
               /\ changes[n].change_type = "ADDED" => changes[n].old_content = <<>>
               /\ changes[n].change_type # "ADDED" =>
                      (changes[n].old_content = <<>> <=> FromEmptyOld(changes[n]))
        /\ run_pc = "done" =>
               /\ Len(Val(changes_file)) = Len(changes)
               /\ \A n \in 1..Len(changes) :
                      DictShapeOf(Val(changes_file)[n], changes[n])

\* changes.json was written with a REMOVED record of an old chunk whose
\* content is empty, next to a MODIFIED record
C20_Witness ==
    /\ run_pc = "done"
    /\ \E n \in 1..Len(changes) :
           changes[n].change_type = "REMOVED" /\ changes[n].old_content = <<>>
    /\ \E n \in 1..Len(changes) : changes[n].change_type = "MODIFIED"

----------------------------------------------------------------------------
(* scripts/cluster_events.py *)

MaxDiffs == 10

CLUSTER_MIN_SIZE == 5

\* no detector call made
DetectIdle ==
    /\ old_chunks = <<>>
    /\ new_chunks = <<>>
    /\ threshold = DefaultThreshold
    /\ mapping = <<>>
    /\ prev_mapping = <<>>
    /\ map_runs = 0
    /\ det_made = FALSE
    /\ det_threshold = DefaultThreshold
    /\ det_version_map = <<>>
    /\ changes = <<>>
    /\ prev_changes = <<>>
    /\ det_runs = 0
    /\ run_pc = "loaded"
    /\ map_error = None
    /\ det_error = None
    /\ version_map_file = None
    /\ files_before = <<None, None>>

\* record i of changes.json: ADDED and REMOVED paragraphs of section "5" in turn
DiffAt(i) ==
    LET text == <<97 + i>>
    IN  to_dict(IF i % 2 = 0
                THEN Change(Sec5, Sec5 \o Underscore \o DecStr(i), "ADDED",
                            <<>>, text, FracZero, None)
                ELSE Change(Sec5, Sec5 \o Underscore \o DecStr(i), "REMOVED",
                            text, <<>>, FracZero, None))

\* a changes.json of n records
Diffs(n) == [i \in 1..n |-> DiffAt(i - 1)]

\* texts = [d["new_content"] or d["old_content"] for d in diffs]
texts(diffs) ==
    [i \in 1..Len(diffs) |->
        IF diffs[i].new_content # <<>> THEN diffs[i].new_content
        ELSE diffs[i].old_content]

\* row counts of a diff_embeddings.npy left by a run on a changes.json of n,
\* n - 1 or n + 1 records
CachedRows(n) == {m \in {n - 1, n, n + 1} : m >= 0 /\ m <= MaxDiffs}

\* a change_events.json written by an earlier run
PriorEvents == <<[event_id |-> 0, label |-> <<79>>, members |-> <<0, 1, 2, 3, 4>>]>>

InitCluster ==
    /\ DetectIdle
    /\ \E n \in 0..MaxDiffs :
           /\ changes_file \in {None, Some(Diffs(n))}
           /\ emb_file \in {None} \cup {Some(m) : m \in CachedRows(n)}
    /\ events_file \in {None, Some(PriorEvents)}
    /\ cl_pc = "start"
    /\ embs = None
    /\ labels = <<>>
    /\ events = <<>>
    /\ cl_error = None
    /\ DbIdle
    /\ ParseIdle
    /\ HtmlIdle

ClusterError(type, site) == [type |-> type, site |-> site]

\* steps 2 and 3: load changes.json, embed the texts or load the cached array
Embed ==
    /\ cl_pc = "start"
    /\ IF changes_file = None
       THEN /\ cl_pc' = "failed"
            /\ cl_error' = Some(ClusterError("FileNotFoundError", "open"))
            /\ UNCHANGED <<emb_file, embs>>
       ELSE /\ cl_pc' = "embedded"
            /\ IF emb_file = None
               THEN /\ embs' = Some(Len(texts(Val(changes_file))))
                    /\ emb_file' = embs'
               ELSE /\ embs' = emb_file
                    /\ UNCHANGED emb_file
            /\ UNCHANGED cl_error
    /\ UNCHANGED <<labels, events, events_file, detectVars, runVars,
                   dbVars, versionVars, parseVars, htmlVars>>

\* the ways to take clusters of at least CLUSTER_MIN_SIZE rows each, one
\* after the other, out of the rows in free
RECURSIVE Clusterings(_)
Clusterings(free) ==
    {<<>>} \cup
    UNION {{<<c>> \o rest : rest \in Clusterings(free \ c)} :
               c \in {t \in SUBSET free : Cardinality(t) >= CLUSTER_MIN_SIZE}}

\* the label array of a clustering: the number of the cluster of a row,
\* counted from 0, and -1 for a row in no cluster
LabelsOf(rows, cs) ==
    [i \in 1..rows |->
        IF \E c \in 1..Len(cs) : i \in cs[c]
        THEN (CHOOSE c \in 1..Len(cs) : i \in cs[c]) - 1
        ELSE -1]

\* the arrays HDBSCAN(min_cluster_size=CLUSTER_MIN_SIZE).fit_predict can
\* return for an array of rows rows
fit_predict(rows) == {LabelsOf(rows, cs) : cs \in Clusterings(1..rows)}

\* labels.max() of an array with at least one row
max(ls) == CHOOSE x \in {ls[i] : i \in 1..Len(ls)} : \A i \in 1..Len(ls) : ls[i] <= x

\* num_clusters = int(labels.max()) + 1
num_clusters(ls) == max(ls) + 1

\* step 4: fit_predict and labels.max(). fit_predict and max both raise
\* ValueError on an array without rows; on fewer rows than
\* CLUSTER_MIN_SIZE + 1 the neighbour query of fit_predict may raise
FitPredict ==
    /\ cl_pc = "embedded"
    /\ \/ /\ Val(embs) = 0
          /\ cl_pc' = "failed"
          /\ \E site \in {"fit_predict", "labels.max"} :
                 cl_error' = Some(ClusterError("ValueError", site))
          /\ UNCHANGED labels
       \/ /\ Val(embs) > 0
          /\ Val(embs) <= CLUSTER_MIN_SIZE
          /\ cl_pc' = "failed"
          /\ cl_error' = Some(ClusterError("ValueError", "fit_predict"))
          /\ UNCHANGED labels
       \/ /\ Val(embs) > 0
          /\ cl_pc' = "clustered"
          /\ labels' \in fit_predict(Val(embs))
          /\ UNCHANGED cl_error
    /\ UNCHANGED <<emb_file, embs, events, events_file, detectVars, runVars,
                   dbVars, versionVars, parseVars, htmlVars>>

\* the rows with label cid or a lower one
members_leq(ls, cid) ==
    SelectSeq([i \in 1..Len(ls) |-> i - 1], LAMBDA i : ls[i + 1] <= cid)

\* members = [i for i, lbl in enumerate(labels) if lbl == cid]
members_of(ls, cid) ==
    SelectSeq([i \in 1..Len(ls) |-> i - 1], LAMBDA i : ls[i + 1] = cid)

RECURSIVE lstrip(_, _)
lstrip(s, chars) ==
    IF s # <<>> /\ Head(s) \in chars THEN lstrip(Tail(s), chars) ELSE s

RECURSIVE rstrip(_, _)
rstrip(s, chars) ==
    IF s # <<>> /\ s[Len(s)] \in chars
    THEN rstrip(SubSeq(s, 1, Len(s) - 1), chars) ELSE s

\* str.strip(chars)
strip(s, chars) == rstrip(lstrip(s, chars), chars)

\* the characters str.strip() removes
Whitespace == {9, 10, 11, 12, 13, 28, 29, 30, 31, 32, 133, 160}

Quote == 34

\* title = call_llm(prompt).strip().strip('"')
title_of(raw) == strip(strip(raw, Whitespace), {Quote})

\* the event of cluster cid, numbered from 1
event_from1(cid, title, members) ==
    [event_id |-> cid + 1, label |-> title, members |-> members]

\* {"event_id": cid, "label": title, "members": members}
event(cid, title, members) ==
    [event_id |-> cid, label |-> title, members |-> members]

\* what call_llm does in one call: it raises (None), or returns one of
\* these strings
LlmReplies == {<<84>>, <<32, 34, 84, 32, 34, 10>>}
LlmOutcomes == {None} \cup {Some(reply) : reply \in LlmReplies}

\* examples = [texts[i] for i in members[:3]] raises IndexError
examples_raises(ts, members) ==
    \E k \in 1..Len(members) : k <= 3 /\ members[k] >= Len(ts)

\* step 6: the loop over range(num_clusters), from cluster cid on, with the
\* events built so far; llm[cid] is the outcome of the call for cluster cid
RECURSIVE LabelLoop(_, _, _, _, _)
LabelLoop(ls, ts, llm, cid, evs) ==
    IF cid >= num_clusters(ls) THEN [events |-> evs, error |-> None]
    ELSE \* members is bound once
         CHOOSE r \in {LET members == members_of(ls, cid)
                       IN  IF members = <<>>
                           THEN LabelLoop(ls, ts, llm, cid + 1, evs)
                           ELSE IF examples_raises(ts, members)
                           THEN [events |-> evs,
                                 error |-> Some(ClusterError("IndexError", "texts"))]
                           ELSE IF llm[cid] = None
                           THEN [events |-> evs,
                                 error |-> Some(ClusterError("LLMError", "call_llm"))]
                           ELSE LabelLoop(ls, ts, llm, cid + 1,
                                          Append(evs, event(cid, title_of(Val(llm[cid])),
                                                            members)))} : TRUE

\* steps 5 and 6: GroqLLM() raises RuntimeError without GROQ_API_KEY; then
\* one call_llm per cluster
LabelEvents ==
    /\ cl_pc = "clustered"
    /\ \/ /\ cl_pc' = "failed"
          /\ cl_error' = Some(ClusterError("RuntimeError", "GroqLLM"))
          /\ UNCHANGED events
       \/ \E llm \in [0..(num_clusters(labels) - 1) -> LlmOutcomes] :
          \E r \in {LabelLoop(labels, texts(Val(changes_file)), llm, 0, <<>>)} :
              /\ events' = r.events
              /\ cl_error' = r.error
              /\ cl_pc' = IF r.error = None THEN "labelled" ELSE "failed"
    /\ UNCHANGED <<emb_file, embs, labels, events_file, detectVars, runVars,
                   dbVars, versionVars, parseVars, htmlVars>>

\* step 7: json.dump(events) to change_events.json
WriteEvents ==
    /\ cl_pc = "labelled"
    /\ cl_pc' = "done"
    /\ events_file' = Some(events)
    /\ UNCHANGED <<emb_file, embs, labels, events, cl_error, detectVars, runVars,
                   dbVars, versionVars, parseVars, htmlVars>>

NextCluster == Embed \/ FitPredict \/ LabelEvents \/ WriteEvents

SpecCluster == InitCluster /\ [][NextCluster]_vars

----------------------------------------------------------------------------
(* C13, C14, C15, C16: the clustering script *)

\* x is an element of the list xs
InList(x, xs) == \E k \in 1..Len(xs) : xs[k] = x

\* the label loop has run to its end
Labelled == cl_pc \in {"labelled", "done"}

\* the events whose members list holds Change i
EventsOf(i) == {e \in 1..Len(events) : InList(i, events[e].members)}

\* C13: for every label array of the clustering step, a Change with label -1
\* is in the members list of no Event, and a Change with a label >= 0 is in
\* the members list of exactly one Event, the one whose event_id is its
\* label; the list written to change_events.json is that Event list.
C13_NoiseExcluded ==
    Labelled =>
        /\ \A i \in 1..Len(labels) :
               /\ labels[i] = -1 => EventsOf(i - 1) = {}
               /\ labels[i] >= 0 =>
                      /\ Cardinality(EventsOf(i - 1)) = 1
                      /\ \A e \in EventsOf(i - 1) : events[e].event_id = labels[i]
        /\ \A e \in 1..Len(events) :
               \A k \in 1..Len(events[e].members) :
                   events[e].members[k] < Len(labels)
        /\ cl_pc = "done" => events_file = Some(events)

\* change_events.json was written by a run in which a Change is noise
\* and another one is in a cluster
C13_Witness ==
    /\ cl_pc = "done"
    /\ Len(Val(events_file)) >= 1
    /\ \E i \in 1..Len(labels) : labels[i] = -1
    /\ \E i \in 1..Len(labels) : labels[i] = 0

\* xs is in strictly ascending order
Ascending(xs) == \A k \in 1..(Len(xs) - 1) : xs[k] < xs[k + 1]

\* C14: the Event list written by a clustering run has the event_id values
\* 0..N-1 in ascending order, N the number of Events; no Event has an empty
\* members list or the id -1; each members list is in ascending order of
\* Change index; when every Change is noise the list written is empty.
C14_DenseIds ==
    cl_pc = "done" =>
        /\ \A e \in 1..Len(Val(events_file)) :
               /\ Val(events_file)[e].event_id = e - 1
               /\ Val(events_file)[e].members # <<>>
               /\ Ascending(Val(events_file)[e].members)
        /\ (\A i \in 1..Len(labels) : labels[i] = -1) => Val(events_file) = <<>>

\* change_events.json was written with two Events
C14_Witness == cl_pc = "done" /\ Len(Val(events_file)) = 2

\* the script has ended
Ended == cl_pc \in {"done", "failed"}

\* C15: a clustering run on an empty change set ends normally and writes
\* an empty Event list to change_events.json.
C15_EmptyInput ==
    (Ended /\ changes_file = Some(<<>>)) =>
        /\ cl_pc = "done"
        /\ cl_error = None
        /\ events_file = Some(<<>>)

\* the run ended with a call_llm that raised
LlmFailed == cl_error # None /\ Val(cl_error).site = "call_llm"

\* C16: when the summarization call fails for a cluster, the run still
\* makes an Event for every cluster, in label order, the failed one with a
\* fallback label, and writes all of them to change_events.json.
C16_LabelIsolation ==
    (Ended /\ LlmFailed) =>
        /\ cl_pc = "done"
        /\ Len(events) = num_clusters(labels)
        /\ \A e \in 1..Len(events) : events[e].event_id = e - 1
        /\ events_file = Some(events)

----------------------------------------------------------------------------
(* utils/vector_db.py and the builddb command of main.py *)

\* encoder.encode(text): the embedding, here a point on a line given as a
\* fraction, so that the mean of embeddings is a fraction too
encode(text) == <<IF text = <<>> THEN 0 ELSE text[1], 1>>

Abs(x) == IF x < 0 THEN -x ELSE x

\* vector v is nearer to the query vector q than vector w
Closer(v, w, q) ==
    Abs(v[1] * q[2] - q[1] * v[2]) * w[2] < Abs(w[1] * q[2] - q[1] * w[2]) * v[2]

\* the squared L2 distance IndexFlatL2 reports
Score(v, q) ==
    <<(v[1] * q[2] - q[1] * v[2]) * (v[1] * q[2] - q[1] * v[2]),
      v[2] * v[2] * q[2] * q[2]>>

\* the orders in which the positions in left come by distance to q
RECURSIVE Ranked(_, _, _)
Ranked(index, q, left) ==
    IF left = {} THEN {<<>>}
    ELSE UNION {{<<p>> \o r : r \in Ranked(index, q, left \ {p})} :
                    p \in {n \in left :
                              \A o \in left : ~Closer(index[o], index[n], q)}}

\* index.search(q, top_k): the labels of the top_k nearest vectors, counted
\* from 0, filled up with -1 when the index holds fewer
search(index, q, top_k) ==
    {[k \in 1..top_k |-> IF k <= Len(r) THEN r[k] - 1 ELSE -1] :
        r \in Ranked(index, q, 1..Len(index))}

\* the entry store_changes keeps for a record of changes.json
MetaOf(c) ==
    [section_id |-> c.section_id, chunk_id |-> c.chunk_id,
     change_type |-> c.change_type, similarity |-> c.similarity_score,
     text |-> IF c.new_content # <<>> THEN c.new_content ELSE c.old_content]

\* the four files of the persist directory
Dir ==
    [chunk_index |-> chunk_index_file, chunk_meta |-> chunk_meta_file,
     event_index |-> event_index_file, event_meta |-> event_meta_file]

\* VectorDB.__init__: a pair of files is loaded when both exist, otherwise
\* the index and the list start empty
VectorDB(dir) ==
    LET chunks == dir.chunk_index # None /\ dir.chunk_meta # None
        evts == dir.event_index # None /\ dir.event_meta # None
    IN  [chunk_index |-> IF chunks THEN Val(dir.chunk_index) ELSE <<>>,
         chunk_metadatas |-> IF chunks THEN Val(dir.chunk_meta) ELSE <<>>,
         event_index |-> IF evts THEN Val(dir.event_index) ELSE <<>>,
         event_metadatas |-> IF evts THEN Val(dir.event_meta) ELSE <<>>]

DbError(type, site) == [type |-> type, site |-> site]

\* VectorDB.store_changes on the object v and the directory dir
store_changes(v, dir, cs) ==
    LET meta == [i \in 1..Len(cs) |-> MetaOf(cs[i])]
        embeddings == [i \in 1..Len(cs) |-> encode(meta[i].text)]
    IN  IF cs = <<>>
        THEN [error |-> Some(DbError("ValueError", "store_changes")),
              vdb |-> [v EXCEPT !.chunk_index = <<>>], dir |-> dir]
        ELSE [error |-> None,
              vdb |-> [v EXCEPT !.chunk_index = embeddings,
                                !.chunk_metadatas = meta],
              dir |-> [dir EXCEPT !.chunk_meta = Some(meta),
                                  !.chunk_index = Some(embeddings)]]

RECURSIVE SumOf(_, _)
SumOf(all_embs, members) ==
    IF members = <<>> THEN 0
    ELSE all_embs[Head(members) + 1][1] + SumOf(all_embs, Tail(members))

\* all_embs[members].mean(axis=0)
centroid(all_embs, members) == <<SumOf(all_embs, members), Len(members)>>

\* VectorDB.store_events on the object v and the directory dir
store_events(v, dir, evs) ==
    LET all_embs == [i \in 1..Len(v.chunk_metadatas) |->
                        encode(v.chunk_metadatas[i].text)]
        kept == SelectSeq(evs, LAMBDA ev : ev.members # <<>>)
        meta == [e \in 1..Len(kept) |->
                    [event_id |-> kept[e].event_id, label |-> kept[e].label,
                     members |-> kept[e].members]]
    IN  IF all_embs = <<>>
        THEN [error |-> Some(DbError("ValueError", "store_events")),
              vdb |-> v, dir |-> dir]
        ELSE IF \E e \in 1..Len(kept) : \E k \in 1..Len(kept[e].members) :
                    kept[e].members[k] >= Len(all_embs)
        THEN [error |-> Some(DbError("IndexError", "store_events")),
              vdb |-> v, dir |-> dir]
        ELSE IF kept = <<>>
        THEN [error |-> Some(DbError("ValueError", "store_events")),
              vdb |-> [v EXCEPT !.event_index = <<>>], dir |-> dir]
        ELSE LET centroids == [e \in 1..Len(kept) |->
                                  centroid(all_embs, kept[e].members)]
             IN  [error |-> None,
                  vdb |-> [v EXCEPT !.event_index = centroids,
                                    !.event_metadatas = meta],
                  dir |-> [dir EXCEPT !.event_meta = Some(meta),
                                      !.event_index = Some(centroids)]]

\* builddb from the construction of the VectorDB on: store_changes, then
\* store_events if events
builddb(dir, cs, evs) ==
    LET stored == store_changes(VectorDB(dir), dir, cs)
    IN  IF stored.error # None \/ evs = <<>> THEN stored
        ELSE store_events(stored.vdb, stored.dir, evs)

\* events = [] unless change_events.json exists
EventsRead == IF events_file = None THEN <<>> ELSE Val(events_file)

\* versions = {} unless versions.json exists
Versions == IF versions_json = None THEN <<>> ELSE Val(versions_json)

\* VectorDB._load_versions: the content of versions.pkl, {} when absent
load_versions(file) == IF file = None THEN <<>> ELSE Val(file)

\* VectorDB.__init__, "Store or load versions": versions is the argument
\* (None when not passed), file is versions.pkl
init_versions(versions, file) ==
    IF versions # None
    THEN [versions |-> Val(versions), file |-> Some(Val(versions))]
    ELSE [versions |-> load_versions(file), file |-> file]

\* change_events.json of a clustering run on 6 changes, the first one noise
LaterEvents == <<event(0, <<84>>, <<1, 2, 3, 4, 5>>)>>

ChangeInputs == {None, Some(<<>>), Some(Diffs(5)), Some(Diffs(6))}
EventInputs == {None, Some(<<>>), Some(PriorEvents), Some(LaterEvents)}

InitDB ==
    /\ DetectIdle
    /\ changes_file \in ChangeInputs
    /\ events_file \in EventInputs
    /\ cl_pc = "idle"
    /\ emb_file = None
    /\ embs = None
    /\ labels = <<>>
    /\ events = <<>>
    /\ cl_error = None
    /\ DbIdle
    /\ ParseIdle
    /\ HtmlIdle

\* a detect run and a clustering run leave other files in data/processed
ReplaceInputs ==
    /\ changes_file' \in ChangeInputs
    /\ events_file' \in EventInputs
    /\ <<changes_file', events_file'>> # <<changes_file, events_file>>
    /\ UNCHANGED <<detectVars, run_pc, map_error, det_error, version_map_file,
                   files_before, cl_pc, emb_file, embs, labels, events, cl_error,
                   dbVars, versionVars, parseVars, htmlVars>>

\* the builddb command
Builddb ==
    /\ IF changes_file = None
       THEN /\ db_pc' = "failed"
            /\ db_error' = Some(DbError("FileNotFoundError", "open"))
            /\ vdb' = None
            /\ built_from' = None
            /\ UNCHANGED <<chunk_index_file, chunk_meta_file, event_index_file,
                           event_meta_file, versions_file, self_versions>>
       ELSE \E r \in {builddb(Dir, Val(changes_file), EventsRead)} :
                /\ versions_file' = init_versions(Some(Versions), versions_file).file
                /\ self_versions' = init_versions(Some(Versions), versions_file).versions
                /\ chunk_index_file' = r.dir.chunk_index
                /\ chunk_meta_file' = r.dir.chunk_meta
                /\ event_index_file' = r.dir.event_index
                /\ event_meta_file' = r.dir.event_meta
                /\ db_error' = r.error
                /\ IF r.error = None
                   THEN /\ db_pc' = "built"
                        /\ vdb' = Some(r.vdb)
                        /\ built_from' = Some(EventsRead)
                   ELSE /\ db_pc' = "failed"
                        /\ vdb' = None
                        /\ built_from' = None
    /\ db_query' = None
    /\ db_results' = <<>>
    /\ UNCHANGED <<detectVars, runVars, clusterVars, parseVars, htmlVars, versions_json>>

\* a builddb run whose process ends between pickle.dump and
\* faiss.write_index, in store_changes or in store_events
BuilddbInterrupted ==
    /\ changes_file # None
    /\ \E at \in {"store_changes", "store_events"} :
       \E r \in {builddb(Dir, Val(changes_file),
                         IF at = "store_changes" THEN <<>> ELSE EventsRead)} :
           /\ r.error = None
           /\ at = "store_events" => EventsRead # <<>>
           /\ chunk_meta_file' = r.dir.chunk_meta
           /\ chunk_index_file' = IF at = "store_changes" THEN chunk_index_file
                                  ELSE r.dir.chunk_index
           /\ event_meta_file' = r.dir.event_meta
           /\ UNCHANGED event_index_file
    /\ versions_file' = init_versions(Some(Versions), versions_file).file
    /\ self_versions' = init_versions(Some(Versions), versions_file).versions
    /\ db_pc' = "down"
    /\ vdb' = None
    /\ db_error' = None
    /\ built_from' = None
    /\ db_query' = None
    /\ db_results' = <<>>
    /\ UNCHANGED <<detectVars, runVars, clusterVars, parseVars, htmlVars, versions_json>>

\* start of the API process: a VectorDB on the persist directory
Serve ==
    /\ db_pc' = "serving"
    /\ vdb' = Some(VectorDB(Dir))
    /\ versions_file' = init_versions(Some(Versions), versions_file).file
    /\ self_versions' = init_versions(Some(Versions), versions_file).versions
    /\ db_error' = None
    /\ db_query' = None
    /\ db_results' = <<>>
    /\ UNCHANGED <<chunk_index_file, chunk_meta_file, event_index_file,
                   event_meta_file, built_from, versions_json, detectVars,
                   runVars, clusterVars, parseVars, htmlVars>>

Queries == {<<97>>, <<122>>}
TopKs == {3, 8}

Query(kind, q, top_k, idxs) ==
    [kind |-> kind, query |-> q, top_k |-> top_k, idxs |-> idxs]

\* the labels search returned that the loop of a query keeps
Kept(idxs, metadatas) ==
    SelectSeq(idxs, LAMBDA idx : ~(idx < 0 \/ idx >= Len(metadatas)))

\* VectorDB.query_changes, idxs being the labels search returned
query_changes(v, q, idxs) ==
    LET kept == Kept(idxs, v.chunk_metadatas)
    IN  [k \in 1..Len(kept) |->
            [text |-> v.chunk_metadatas[kept[k] + 1].text,
             score |-> Score(v.chunk_index[kept[k] + 1], encode(q)),
             metadata |-> Without(v.chunk_metadatas[kept[k] + 1], "text")]]

\* VectorDB.query_events, idxs being the labels search returned
query_events(v, q, idxs) ==
    LET kept == Kept(idxs, v.event_metadatas)
    IN  [k \in 1..Len(kept) |->
            [label |-> v.event_metadatas[kept[k] + 1].label,
             score |-> Score(v.event_index[kept[k] + 1], encode(q)),
             metadata |-> Without(v.event_metadatas[kept[k] + 1], "label")]]

Live == db_pc \in {"built", "serving"}

QueryChanges ==
    /\ Live
    /\ \E q \in Queries : \E top_k \in TopKs :
       \E idxs \in search(Val(vdb).chunk_index, encode(q), top_k) :
           /\ db_query' = Some(Query("changes", q, top_k, idxs))
           /\ db_results' = query_changes(Val(vdb), q, idxs)
    /\ UNCHANGED <<db_pc, vdb, chunk_index_file, chunk_meta_file, event_index_file,
                   event_meta_file, versions_file, db_error, built_from,
                   versionVars, detectVars, runVars, clusterVars, parseVars, htmlVars>>

QueryEvents ==
    /\ Live
    /\ \E q \in Queries : \E top_k \in TopKs :
       \E idxs \in search(Val(vdb).event_index, encode(q), top_k) :
           /\ db_query' = Some(Query("events", q, top_k, idxs))
           /\ db_results' = query_events(Val(vdb), q, idxs)
    /\ UNCHANGED <<db_pc, vdb, chunk_index_file, chunk_meta_file, event_index_file,
                   event_meta_file, versions_file, db_error, built_from,
                   versionVars, detectVars, runVars, clusterVars, parseVars, htmlVars>>

NextDB ==
    \/ ReplaceInputs
    \/ Builddb
    \/ BuilddbInterrupted
    \/ Serve
    \/ QueryChanges
    \/ QueryEvents

SpecDB == InitDB /\ [][NextDB]_vars

----------------------------------------------------------------------------
(* C18, C19: the persisted indexes *)

\* the list in an optional file, empty when the file is absent
Held(file) == IF file = None THEN <<>> ELSE Val(file)

\* an index file and a metadata file that are not a matched pair: only one
\* of them exists, or they differ in the number of entries
Unmatched(index, meta) ==
    \/ (index = None) # (meta = None)
    \/ Len(Held(index)) # Len(Held(meta))

Mismatch ==
    \/ Unmatched(chunk_index_file, chunk_meta_file)
    \/ Unmatched(event_index_file, event_meta_file)

Smaller(a, b) == IF a < b THEN a ELSE b

\* the idx-th hit (from 0) of the last query, a query_changes, is the
\* neighbour the persisted index holds at the label search returned for it
RightNeighbour(k) ==
    LET idx == Kept(Val(db_query).idxs, Val(vdb).chunk_metadatas)[k]
    IN  /\ idx < Len(Held(chunk_index_file))
        /\ encode(db_results[k].text) = Held(chunk_index_file)[idx + 1]

\* C18: a VectorDB is never live on a persist directory whose index and
\* metadata files do not match (its construction fails fast), and a query
\* on a live VectorDB returns as many neighbours as asked for, or all the
\* persisted index holds, each with the metadata of the vector found.
C18_FailFast ==
    /\ Mismatch => ~Live
    /\ (Live /\ db_query # None /\ Val(db_query).kind = "changes") =>
           /\ Len(db_results) =
                  Smaller(Val(db_query).top_k, Len(Held(chunk_index_file)))
           /\ \A k \in 1..Len(db_results) : RightNeighbour(k)
    /\ (Live /\ db_query # None /\ Val(db_query).kind = "events") =>
           Len(db_results) =
               Smaller(Val(db_query).top_k, Len(Held(event_index_file)))

\* the hit of a query_events is one of the events in evs
HitIn(hit, evs) ==
    \E e \in 1..Len(evs) :
        /\ evs[e].label = hit.label
        /\ evs[e].event_id = hit.metadata.event_id
        /\ evs[e].members = hit.metadata.members

\* C19: after a builddb run the event metadata and the event index, in
\* memory and persisted, hold exactly the events of the change_events.json
\* read by that run (none when the file is absent or holds no events), and
\* query_events returns only such events, in that process and in a later one.
C19_FullRebuild ==
    built_from # None =>
        /\ Held(event_meta_file) = Val(built_from)
        /\ Len(Held(event_index_file)) = Len(Val(built_from))
        /\ Live =>
               /\ Val(vdb).event_metadatas = Val(built_from)
               /\ Len(Val(vdb).event_index) = Len(Val(built_from))
        /\ (Live /\ db_query # None /\ Val(db_query).kind = "events") =>
               \A k \in 1..Len(db_results) : HitIn(db_results[k], Val(built_from))

----------------------------------------------------------------------------
(* One section with up to four new chunks: an insert run next to an equal  *)
(* run and a delete run, and sequences with more than one common           *)
(* subsequence                                                             *)

MaxSkipOld == 3
MaxSkipNew == 4

SkipKinds == {Paragraph(Sec10, StrA), Paragraph(Sec10, StrAB)}

InitSkip ==
    Loaded({AssignIds(r) : r \in SeqsUpTo(SkipKinds, MaxSkipOld)},
           {AssignIds(r) : r \in SeqsUpTo(SkipKinds, MaxSkipNew)},
           Thresholds)

SpecSkip == InitSkip /\ [][Next]_vars

----------------------------------------------------------------------------
(* C22 *)

\* the old chunks that version_map maps to the new chunk id
MappedTo(id) == {k \in DOMAIN det_version_map : det_version_map[k] = <<id>>}

\* the tag of the run in which the old chunk with chunk_id k lies
RunTagOfOld(sec, k) ==
    Ops(sec)[RunOfOld(Ops(sec), IndexOf(Olds(sec), k))].tag

\* C22: with version_map = map_chunks(old_chunks, new_chunks), a new chunk
\* of an insert run that is skipped as a version_map value is the moved_to
\* of a MOVED record of the returned list, and no old chunk mapped to it
\* lies in an equal or a replace run.
C22_SkipSurfaced ==
    (Detected /\ Pipeline) =>
        \A sec \in Secs : \A j \in 0..(Len(News(sec)) - 1) :
            Skipped(sec, j) =>
                /\ \E n \in Records : MovedTarget(n, News(sec)[j + 1].chunk_id)
                /\ \A k \in MappedTo(News(sec)[j + 1].chunk_id) :
                       RunTagOfOld(sec, k) \notin {"equal", "replace"}

----------------------------------------------------------------------------
(* C23 *)

\* no new chunk of o's section reaches the mapping threshold against o
NoSimilar(o) ==
    \A n \in 1..Len(SameSection(o)) :
        FracLess(ScoreOf(o, SameSection(o)[n]), threshold)

\* a new chunk of another section reaches the mapping threshold against o
SimilarElsewhere(o) ==
    \E n \in 1..Len(new_chunks) :
        /\ new_chunks[n].section_id # o.section_id
        /\ FracGeq(ScoreOf(o, new_chunks[n]), threshold)

\* the moved_to of record n is a new chunk of the record's own section
MovedWithinSection(n) ==
    \E j \in 1..Len(new_chunks) :
        /\ changes[n].moved_to = <<new_chunks[j].chunk_id>>
        /\ new_chunks[j].section_id = changes[n].section_id

\* C23, as stated: with version_map = map_chunks(old_chunks, new_chunks),
\* the moved_to of every MOVED record is a new chunk of the record's
\* section, and an old chunk whose section has no similar new chunk is
\* REMOVED.
C23_NoCrossSection ==
    (Detected /\ Pipeline) =>
        /\ \A n \in Records : OfType(n, {"MOVED"}) => MovedWithinSection(n)
        /\ \A i \in 1..Len(old_chunks) :
               NoSimilar(old_chunks[i]) =>
                   \E n \in Records :
                       /\ OfType(n, {"REMOVED"})
                       /\ changes[n].chunk_id = old_chunks[i].chunk_id

\* C23, amended: the moved_to of every MOVED record is a new chunk of the
\* record's section, and an old chunk whose section has no similar new
\* chunk is never MOVED and is REMOVED when it lies in a delete run, also
\* when a similar chunk exists in another section.
C23_NeverMovedAcross ==
    (Detected /\ Pipeline) =>
        /\ \A n \in Records : OfType(n, {"MOVED"}) => MovedWithinSection(n)
        /\ \A i \in 1..Len(old_chunks) :
               NoSimilar(old_chunks[i]) =>
                   /\ \A n \in Records :
                          OfType(n, {"MOVED"}) =>
                              changes[n].chunk_id # old_chunks[i].chunk_id
                   /\ RunTagOfOld(old_chunks[i].section_id,
                                  old_chunks[i].chunk_id) = "delete" =>
                          \E n \in Records :
                              /\ OfType(n, {"REMOVED"})
                              /\ changes[n].chunk_id = old_chunks[i].chunk_id

\* a MOVED record next to a REMOVED record of an old chunk that has a
\* similar new chunk in another section only
C23_Witness ==
    /\ Detected
    /\ Pipeline
    /\ \E n \in Records : OfType(n, {"MOVED"})
    /\ \E i \in 1..Len(old_chunks) :
           /\ NoSimilar(old_chunks[i])
           /\ SimilarElsewhere(old_chunks[i])
           /\ \E n \in Records :
                  /\ OfType(n, {"REMOVED"})
                  /\ changes[n].chunk_id = old_chunks[i].chunk_id

----------------------------------------------------------------------------
(* C24 *)

RECURSIVE LcsLen(_, _)
\* length of a longest common subsequence of the sequences a and b
LcsLen(a, b) ==
    IF a = <<>> \/ b = <<>> THEN 0
    ELSE IF Head(a) = Head(b) THEN 1 + LcsLen(Tail(a), Tail(b))
    ELSE LET skip_a == LcsLen(Tail(a), b)
             skip_b == LcsLen(a, Tail(b))
         IN  IF skip_a >= skip_b THEN skip_a ELSE skip_b

RECURSIVE EqualCount(_)
\* number of chunk pairs in the equal runs of ops
EqualCount(ops) ==
    IF ops = <<>> THEN 0
    ELSE (IF Head(ops).tag = "equal" THEN OldLen(Head(ops)) ELSE 0)
             + EqualCount(Tail(ops))

\* the runs of ops cover the indices of olds and of news once and in order
CoversInOrder(ops, olds, news) ==
    /\ ops = <<>> => olds = <<>> /\ news = <<>>
    /\ ops # <<>> =>
           /\ ops[1].i1 = 0
           /\ ops[1].j1 = 0
           /\ ops[Len(ops)].i2 = Len(olds)
           /\ ops[Len(ops)].j2 = Len(news)
    /\ \A k \in 1..Len(ops) :
           /\ ops[k].i1 <= ops[k].i2
           /\ ops[k].j1 <= ops[k].j2
           /\ k < Len(ops) =>
                  ops[k].i2 = ops[k + 1].i1 /\ ops[k].j2 = ops[k + 1].j1

\* the equal runs of ops pair chunks of identical content
EqualRunsIdentical(ops, olds, news) ==
    \A k \in Tagged(ops, "equal") :
        /\ OldLen(ops[k]) = NewLen(ops[k])
        /\ \A t \in 1..OldLen(ops[k]) :
               olds[ops[k].i1 + t].content = news[ops[k].j1 + t].content

\* C24: in every section the runs detect_changes uses cover every index of
\* the old and of the new chunk sequence once and in order, equal runs pair
\* chunks of identical content, and the equal runs hold as many chunks as a
\* longest common subsequence of the two content sequences.
C24_MinimalScript ==
    Detected =>
        \A sec \in Secs :
            \E ops \in {SectionOpcodes(old_chunks, new_chunks, sec)} :
                /\ CoversInOrder(ops, Olds(sec), News(sec))
                /\ EqualRunsIdentical(ops, Olds(sec), News(sec))
                /\ EqualCount(ops) =
                       LcsLen(Contents(Olds(sec)), Contents(News(sec)))

----------------------------------------------------------------------------
(* C29 *)

\* C29: in the list detect_changes returns, every old chunk is the subject
\* of at most one record (chunk_id of a REMOVED or MOVED record, old half of
\* a MODIFIED id), every new chunk is the subject of at most one record
\* (chunk_id of an ADDED record, new half of a MODIFIED id), and the chunks
\* of equal runs are the subject of none.
C29_AtMostOneRecord ==
    Detected =>
        \A sec \in Secs :
            \E ops \in {SectionOpcodes(old_chunks, new_chunks, sec)} :
                /\ \A i \in 0..(Len(Olds(sec)) - 1) :
                       Cardinality(OldRecords(Olds(sec)[i + 1].chunk_id))
                           <= IF ops[RunOfOld(ops, i)].tag = "equal" THEN 0 ELSE 1
                /\ \A j \in 0..(Len(News(sec)) - 1) :
                       Cardinality(NewRecords(News(sec)[j + 1].chunk_id))
                           <= IF ops[RunOfNew(ops, j)].tag = "equal" THEN 0 ELSE 1

\* a list with a MODIFIED record and a REMOVED or MOVED record, returned
\* for an input with an equal run
C29_Witness ==
    /\ Detected
    /\ \E n \in Records : OfType(n, {"MODIFIED"})
    /\ \E n \in Records : OfType(n, {"REMOVED", "MOVED"})
    /\ \E sec \in Secs : Tagged(Ops(sec), "equal") # {}

----------------------------------------------------------------------------
(* C25 *)

\* fit_predict has returned
Clustered == cl_pc \in {"clustered", "labelled", "done"}

\* C25: in every clustering run, also one that finds the embeddings file
\* of an earlier run, the label array has one label per Change of the
\* changes.json the run loaded, and every members index written to
\* change_events.json is an index into that Change list.
C25_CurrentChanges ==
    /\ Clustered => Len(labels) = Len(Val(changes_file))
    /\ cl_pc = "done" =>
           \A e \in 1..Len(Val(events_file)) :
               \A k \in 1..Len(Val(events_file)[e].members) :
                   Val(events_file)[e].members[k] < Len(Val(changes_file))

----------------------------------------------------------------------------
(* C27 *)

\* C27: in a builddb run on a changes.json that can be read, store_changes
\* returns, and the persisted chunk index then holds one vector per record
\* and the chunk metadata one entry per record, entry i describing record
\* i, which a VectorDB constructed afterwards on the directory loads; the
\* same when the file holds no records.
C27_ChunkIndexConsistent ==
    [][(Builddb /\ changes_file # None) =>
           /\ db_error' # Some(DbError("ValueError", "store_changes"))
           /\ Len(Held(chunk_index_file')) = Len(Val(changes_file))
           /\ Held(chunk_meta_file') =
                  [i \in 1..Len(Val(changes_file)) |-> MetaOf(Val(changes_file)[i])]]_vars

----------------------------------------------------------------------------
(* C26 *)

\* the embeddings of the persisted chunk-level metadata
ChunkEmbeddings ==
    [i \in 1..Len(Held(chunk_meta_file)) |-> encode(Held(chunk_meta_file)[i].text)]

\* every member index of a persisted event is within the persisted
\* chunk-level metadata list, and the event's centroid is the mean of the
\* embeddings of the Changes at these indices
Attached ==
    /\ Len(Held(event_index_file)) = Len(Held(event_meta_file))
    /\ \A e \in 1..Len(Held(event_meta_file)) :
           /\ \A k \in 1..Len(Held(event_meta_file)[e].members) :
                  Held(event_meta_file)[e].members[k] < Len(Held(chunk_meta_file))
           /\ Held(event_index_file)[e] =
                  centroid(ChunkEmbeddings, Held(event_meta_file)[e].members)

\* C26: in every sequence of detect, clustering and builddb runs, the
\* events persisted stay attached to their Changes: a builddb run, also
\* one that follows a detect run made after the clustering, leaves every
\* member index within the chunk-level metadata list and every centroid
\* the mean of the embeddings of its members.
C26_MembersAttached == [][(Builddb /\ Attached) => Attached']_vars

----------------------------------------------------------------------------
(* Version information: versions.json, versions.pkl and self.versions *)

\* result of scripts/extract_versions.py for two releases
VersionsOf(old, new) ==
    [rel_old |-> [release_info |-> old], rel_new |-> [release_info |-> new]]

VersionInfos == {VersionsOf(<<49, 53>>, <<49, 54>>), VersionsOf(<<49, 54>>, <<49, 55>>)}

\* the versions argument of VectorDB.__init__: not passed, {} or a result
\* of extract_versions.py
VersionArgs == {None, Some(<<>>)} \cup {Some(v) : v \in VersionInfos}

InitVersions ==
    /\ DetectIdle
    /\ changes_file \in ChangeInputs
    /\ events_file = None
    /\ cl_pc = "idle"
    /\ emb_file = None
    /\ embs = None
    /\ labels = <<>>
    /\ events = <<>>
    /\ cl_error = None
    /\ DbIdle
    /\ ParseIdle
    /\ HtmlIdle

\* scripts/extract_versions.py writes versions.json, or the file is removed
ExtractVersions ==
    /\ versions_json' \in {None} \cup {Some(v) : v \in VersionInfos}
    /\ versions_json' # versions_json
    /\ UNCHANGED <<detectVars, runVars, clusterVars, parseVars, htmlVars, dbVars, self_versions>>

\* VectorDB(persist_directory, model_name, versions) by any caller
Construct(versions) ==
    /\ db_pc' = "open"
    /\ vdb' = Some(VectorDB(Dir))
    /\ versions_file' = init_versions(versions, versions_file).file
    /\ self_versions' = init_versions(versions, versions_file).versions
    /\ db_error' = None
    /\ db_query' = None
    /\ db_results' = <<>>
    /\ UNCHANGED <<chunk_index_file, chunk_meta_file, event_index_file,
                   event_meta_file, built_from, versions_json, detectVars,
                   runVars, clusterVars, parseVars, htmlVars>>

\* VectorDB.get_versions
get_versions == self_versions

\* VectorDB.update_versions on the VectorDB of the process
UpdateVersions ==
    /\ vdb # None
    /\ \E versions \in VersionInfos :
           /\ self_versions' = versions
           /\ versions_file' = Some(versions)
    /\ UNCHANGED <<db_pc, vdb, chunk_index_file, chunk_meta_file, event_index_file,
                   event_meta_file, db_error, db_query, db_results, built_from,
                   versions_json, detectVars, runVars, clusterVars, parseVars, htmlVars>>

NextVersions ==
    \/ ExtractVersions
    \/ Builddb
    \/ Serve
    \/ \E versions \in VersionArgs : Construct(versions)
    \/ UpdateVersions

SpecVersions == InitVersions /\ [][NextVersions]_vars

----------------------------------------------------------------------------
(* C30 *)

\* a VectorDB is constructed by a caller that has no version information:
\* versions not passed, or the {} of api startup and builddb when
\* versions.json is missing
ConstructedWithoutVersions ==
    \/ Construct(None)
    \/ Construct(Some(<<>>))
    \/ versions_json = None /\ Serve
    \/ versions_json = None /\ changes_file # None /\ Builddb

\* C30: once version information is persisted in versions.pkl, a VectorDB
\* constructed on the directory by a caller that has no version
\* information returns the persisted information from get_versions() and
\* leaves versions.pkl unchanged.
C30_VersionsSurvive ==
    [][(versions_file # None /\ ConstructedWithoutVersions) =>
           /\ get_versions' = Val(versions_file)
           /\ versions_file' = versions_file]_vars

----------------------------------------------------------------------------
(* parsers/docx_parser.py: parse_docx from the chunk list to the result    *)

MaxBody == 4

Space == <<32>>
Text4 == <<97, 98, 99, 100>>
Text8 == <<97, 98, 99, 100, 101, 102, 103, 104>>

\* count_tokens on a stripped text
count_tokens(text) ==
    IF text = <<>> THEN 0
    ELSE IF Len(text) \div 4 < 1 THEN 1 ELSE Len(text) \div 4

\* a dict of the list chunks
DocChunk(sec, title, pos, content, type) ==
    [section_id |-> sec, parent_section |-> None, title |-> title,
     chunk_id |-> sec \o Underscore \o DecStr(pos), content |-> content,
     chunk_type |-> type, position |-> pos, tokens |-> count_tokens(content)]

\* the locals of parse_docx
ParseState(cs, current_section, pos, seen_heading) ==
    [chunks |-> cs, current_section |-> current_section, pos |-> pos,
     seen_heading |-> seen_heading]

\* add_text_to_preamble and add_text_to_current_section, for a text of one
\* sentence, which split_long_text returns whole
add_text(st, text) ==
    ParseState(Append(st.chunks,
                      DocChunk(st.current_section, None, st.pos + 1, text, "paragraph")),
               st.current_section, st.pos + 1, st.seen_heading)

RECURSIVE add_texts(_, _)
add_texts(st, ts) ==
    IF ts = <<>> THEN st ELSE add_texts(add_text(st, Head(ts)), Tail(ts))

\* a heading paragraph "<sec> <title>" of the body
HeadingPara(sec, title) == [heading |-> TRUE, sec |-> sec, text |-> title]
TextPara(text) == [heading |-> FALSE, sec |-> <<>>, text |-> text]

\* the loop over doc.paragraphs[resume_idx:]
RECURSIVE parse_body(_, _)
parse_body(st, paras) ==
    IF paras = <<>> THEN st
    ELSE LET para == Head(paras)
         IN  IF para.heading
             THEN parse_body(
                      ParseState(Append(st.chunks,
                                        DocChunk(para.sec, Some(para.text), 0,
                                                 para.text, "heading")),
                                 para.sec, 0, TRUE),
                      Tail(paras))
             ELSE IF st.seen_heading \/ st.current_section # SecPreamble
             THEN parse_body(add_text(st, para.text), Tail(paras))
             ELSE parse_body(st, Tail(paras))

\* parse_docx up to the finalize step: the preamble heading, the first
\* page, the body, then the header paragraphs added to the preamble
build_chunks(d) ==
    LET start == ParseState(<<DocChunk(SecPreamble, Some(Preamble), 0, <<>>, "heading")>>,
                            SecPreamble, 0, FALSE)
        body == parse_body(add_texts(start, d.first_page), d.body)
    IN  add_texts(ParseState(body.chunks, SecPreamble, body.pos, body.seen_heading),
                  d.header).chunks

\* the inner while loop of merge_small_chunks: curr absorbs the chunks
\* after position i; the result is curr and the position reached
RECURSIVE absorb(_, _, _, _)
absorb(cs, curr, i, limits) ==
    IF /\ i + 1 <= Len(cs)
       /\ curr.tokens < limits[2]
       /\ cs[i + 1].chunk_type # "heading"
       /\ curr.section_id = cs[i + 1].section_id
       /\ count_tokens(curr.content \o Space \o cs[i + 1].content) <= limits[1]
    THEN absorb(cs,
                [curr EXCEPT !.content = curr.content \o Space \o cs[i + 1].content,
                             !.tokens = count_tokens(curr.content \o Space
                                                     \o cs[i + 1].content)],
                i + 1, limits)
    ELSE <<curr, i>>

\* merge_small_chunks from position i on
RECURSIVE merge_from(_, _, _)
merge_from(cs, i, limits) ==
    IF i > Len(cs) THEN <<>>
    ELSE IF cs[i].chunk_type = "heading"
    THEN <<cs[i]>> \o merge_from(cs, i + 1, limits)
    ELSE LET r == absorb(cs, cs[i], i, limits)
         IN  <<r[1]>> \o merge_from(cs, r[2] + 1, limits)

merge_small_chunks(cs, limits) == merge_from(cs, 1, limits)

\* chunks that keep the ids given while the list was built
keep_ids(ms) == ms

\* the finalize loop: chunk_id and position from a counter per section
reassign_ids(ms) ==
    [n \in 1..Len(ms) |->
        [ms[n] EXCEPT
            !.chunk_id = ms[n].section_id \o Underscore
                             \o DecStr(CountSec(ms, n - 1, ms[n].section_id)),
            !.position = CountSec(ms, n - 1, ms[n].section_id)]]

BodyParas == {HeadingPara(Sec10, StrA), HeadingPara(Sec2, StrA),
              TextPara(Text4), TextPara(Text8)}

Documents ==
    {Document(f, b, h) : f \in SeqsUpTo({Text4}, 1), b \in SeqsUpTo(BodyParas, MaxBody),
                         h \in SeqsUpTo({Text4}, 1)}

\* max_tokens and min_chunk_tokens
TokenLimits == {<<3, 2>>, <<2, 2>>}

InitParse ==
    /\ DetectIdle
    /\ changes_file = None
    /\ ClusterIdle
    /\ DbIdle
    /\ parse_pc = "start"
    /\ doc \in Documents
    /\ token_limits \in TokenLimits
    /\ doc_chunks = <<>>
    /\ merged = <<>>
    /\ HtmlIdle

\* parse_docx reads the document into chunks
BuildChunks ==
    /\ parse_pc = "start"
    /\ parse_pc' = "built"
    /\ doc_chunks' = build_chunks(doc)
    /\ UNCHANGED <<doc, token_limits, merged, detectVars, runVars, clusterVars,
                   dbVars, versionVars, htmlVars>>

\* parse_docx merges, reassigns the ids and returns
Finalize ==
    /\ parse_pc = "built"
    /\ parse_pc' = "done"
    /\ merged' = reassign_ids(merge_small_chunks(doc_chunks, token_limits))
    /\ UNCHANGED <<doc, token_limits, doc_chunks, detectVars, runVars, clusterVars,
                   dbVars, versionVars, htmlVars>>

NextParse == BuildChunks \/ Finalize

SpecParse == InitParse /\ [][NextParse]_vars

----------------------------------------------------------------------------
(* C28 *)

\* C28: in the list parse_docx returns all chunk_id values are pairwise
\* distinct, each is section_id + "_" + position, and the positions of
\* the chunks of one section are 0, 1, ..., k-1 in output order.
C28_UniqueChunkIds ==
    parse_pc = "done" =>
        /\ \A i, j \in 1..Len(merged) :
               merged[i].chunk_id = merged[j].chunk_id => i = j
        /\ \A i \in 1..Len(merged) :
               /\ merged[i].chunk_id =
                      merged[i].section_id \o Underscore \o DecStr(merged[i].position)
               /\ merged[i].position = CountSec(merged, i - 1, merged[i].section_id)

\* parse_docx has returned a list in which small chunks were merged and
\* one section number occurs under two headings
C28_Witness ==
    /\ parse_pc = "done"
    /\ Len(merged) < Len(doc_chunks)
    /\ \E i, j \in 1..Len(merged) :
           /\ i < j
           /\ merged[i].chunk_type = "heading"
           /\ merged[j].chunk_type = "heading"
           /\ merged[i].section_id = merged[j].section_id

----------------------------------------------------------------------------
(* ChangeDetector.write_html_diff and difflib.HtmlDiff                     *)

MaxCalls == 3

\* "a", "a\nb" and "a\nb\n"
HtmlTexts == {<<97>>, <<97, 10, 98>>, <<97, 10, 98, 10>>}

\* "5" and "5.1"
HtmlSections == {<<53>>, <<53, 46, 49>>}

DIFF_ == <<100, 105, 102, 102, 95>>
DOT_HTML == <<46, 104, 116, 109, 108>>
FROM == <<102, 114, 111, 109>>
TO == <<116, 111>>
DIFFLIB_CHG == <<100, 105, 102, 102, 108, 105, 98, 95, 99, 104, 103, 95>>
TOP == <<95, 116, 111, 112>>

\* text.splitlines() for a text whose only line boundary is "\n"
RECURSIVE splitlines(_)
splitlines(text) ==
    IF text = <<>> THEN <<>>
    ELSE IF \E i \in 1..Len(text) : text[i] = 10
    THEN LET i == CHOOSE k \in 1..Len(text) :
                      text[k] = 10 /\ \A m \in 1..(k - 1) : text[m] # 10
         IN  <<SubSeq(text, 1, i - 1)>> \o splitlines(SubSeq(text, i + 1, Len(text)))
    ELSE <<text>>

\* section_id.replace('.', '_')
replace_dots(section_id) ==
    [i \in 1..Len(section_id) |-> IF section_id[i] = 46 THEN 95 ELSE section_id[i]]

\* f"diff_{section_id.replace('.', '_')}.html" in out_dir
out_path(section_id) == DIFF_ \o replace_dots(section_id) \o DOT_HTML

\* HtmlDiff._make_prefix: the anchor prefixes made from the counter
make_prefix(counter) == <<FROM \o DecStr(counter) \o Underscore,
                          TO \o DecStr(counter) \o Underscore>>

\* the cells of one side of the table: the id of line n and its text
side(prefix, lines) == [n \in 1..Len(lines) |-> <<prefix \o DecStr(n), lines[n]>>]

\* HtmlDiff.make_file: what of the page depends on the arguments and on
\* the counter, the id of the table and the cells of both sides
make_file(counter, fromlines, tolines) ==
    [table_id |-> DIFFLIB_CHG \o make_prefix(counter)[2] \o TOP,
     from |-> side(make_prefix(counter)[1], fromlines),
     to |-> side(make_prefix(counter)[2], tolines)]

HtmlCall(old_text, new_text, section_id, content) ==
    [old_text |-> old_text, new_text |-> new_text, section_id |-> section_id,
     content |-> content]

\* ChangeDetector.write_html_diff(old_text, new_text, section_id)
WriteHtmlDiff ==
    /\ default_prefix < MaxCalls
    /\ \E old_text \in HtmlTexts, new_text \in HtmlTexts, section_id \in HtmlSections :
       \E content \in {make_file(default_prefix, splitlines(old_text),
                                 splitlines(new_text))} :
           /\ html_files' = {f \in html_files : f[1] # out_path(section_id)}
                                \cup {<<out_path(section_id), content>>}
           /\ html_calls' = Append(html_calls,
                                   HtmlCall(old_text, new_text, section_id, content))
    /\ default_prefix' = default_prefix + 1
    /\ UNCHANGED <<detectVars, runVars, clusterVars, dbVars, versionVars, parseVars>>

InitHtml ==
    /\ DetectIdle
    /\ changes_file = None
    /\ PipelineIdle

NextHtml == WriteHtmlDiff

SpecHtml == InitHtml /\ [][NextHtml]_vars

----------------------------------------------------------------------------
(* C21 *)

\* C21: two write_html_diff calls with the same (old_text, new_text,
\* section_id) write identical file content, also when both are made in
\* one process and other write_html_diff calls are made in between.
C21_Reproducible ==
    \A i, j \in 1..Len(html_calls) :
        (/\ html_calls[i].old_text = html_calls[j].old_text
         /\ html_calls[i].new_text = html_calls[j].new_text
         /\ html_calls[i].section_id = html_calls[j].section_id)
            => html_calls[i].content = html_calls[j].content

====
